---- MODULE Spec2Model ----
(***************************************************************************)
(* Budget app: the SQLite-backed service layer (services.py) and the       *)
(* Streamlit script that drives it (app.py).                               *)
(*                                                                         *)
(* A string is the sequence of the Unicode code points of its characters   *)
(* ("2026-01" is <<50, 48, 50, 54, 45, 48, 49>>), so that strip(), len(),  *)
(* indexing, lower(), substr(), \d and the ordering of strings are         *)
(* computed as the code computes them.                                     *)
(* Money amounts are whole numbers.  SQL NULL / Python None is Null in a   *)
(* text column; a numeric column or argument that may be NULL / None holds *)
(* NullNum (no number) or <<v>> for the number v.                          *)
(*                                                                         *)
(* Every click or selection in the app is one run of the script from the   *)
(* top; an exception that no handler catches ends the run where it is      *)
(* raised, and what the script has written up to there stays written.      *)
(***************************************************************************)
EXTENDS Integers, Sequences, FiniteSets, TLC

VARIABLES
    db,           \* the tables of budget.db
    now,          \* the instant the next call of now() reads
    pending,      \* st.session_state: the pending_<action>_<key> flags that are True
    selected,     \* st.session_state["<key>_selected"] of each month_selector
    uploaded,     \* the file held by the csv_upload widget (NoFile if none)
    proposed,     \* per pending flag, the write the request that raised it asked for
    area,         \* the area of the app the session works in
    last          \* the last call or click and its outcome

vars == <<db, now, pending, selected, uploaded, proposed, area, last>>

\* the month_selector keys, in the order the script reaches them
Selectors ==
    <<"dash_month", "txn_month", "bud_month", "bills_month", "snap_month", "prog_month",
      "close_month", "export_month">>


----------------------------------------------------------------------------
(* Bounds of the model *)

MaxRows == 1
MaxTxns == 2

----------------------------------------------------------------------------
(* Values *)

Null == <<-1>>
NullNum == <<>>

M1 == <<50, 48, 50, 54, 45, 48, 49>>
M2 == <<50, 48, 50, 54, 45, 48, 50>>
D1 == M1 \o <<45, 49, 53>>
D2 == M2 \o <<45, 48, 51>>

\* the characters str.strip() removes: those for which str.isspace() holds
WhiteSpace ==
    (9..13) \cup (28..32) \cup {133} \cup {160} \cup {5760} \cup (8192..8202) \cup
    (8232..8233) \cup {8239} \cup {8287} \cup {12288}

\* the characters \d matches in a str pattern: the Unicode decimal digits
Digits ==
    (48..57) \cup (1632..1641) \cup (1776..1785) \cup (1984..1993) \cup
    (2406..2415) \cup (2534..2543) \cup (2662..2671) \cup (2790..2799) \cup
    (2918..2927) \cup (3046..3055) \cup (3174..3183) \cup (3302..3311) \cup
    (3430..3439) \cup (3558..3567) \cup (3664..3673) \cup (3792..3801) \cup
    (3872..3881) \cup (4160..4169) \cup (4240..4249) \cup (6112..6121) \cup
    (6160..6169) \cup (6470..6479) \cup (6608..6617) \cup (6784..6793) \cup
    (6800..6809) \cup (6992..7001) \cup (7088..7097) \cup (7232..7241) \cup
    (7248..7257) \cup (42528..42537) \cup (43216..43225) \cup (43264..43273) \cup
    (43472..43481) \cup (43504..43513) \cup (43600..43609) \cup (44016..44025) \cup
    (65296..65305) \cup (66720..66729) \cup (68912..68921) \cup (69734..69743) \cup
    (69872..69881) \cup (69942..69951) \cup (70096..70105) \cup (70384..70393) \cup
    (70736..70745) \cup (70864..70873) \cup (71248..71257) \cup (71360..71369) \cup
    (71472..71481) \cup (71904..71913) \cup (72016..72025) \cup (72784..72793) \cup
    (73040..73049) \cup (73120..73129) \cup (92768..92777) \cup (92864..92873) \cup
    (93008..93017) \cup (120782..120831) \cup (123200..123209) \cup
    (123632..123641) \cup (125264..125273) \cup (130032..130041)

RECURSIVE LStrip(_)
LStrip(s) == IF s # <<>> /\ Head(s) \in WhiteSpace THEN LStrip(Tail(s)) ELSE s

RECURSIVE RStrip(_)
RStrip(s) ==
    IF s # <<>> /\ s[Len(s)] \in WhiteSpace THEN RStrip(SubSeq(s, 1, Len(s) - 1)) ELSE s

\* (x or "").strip()
Strip(s) == IF s = Null THEN <<>> ELSE RStrip(LStrip(s))

\* SQLite lower() of one character: A..Z to a..z, every other character kept
LowerChar(c) == IF c \in 65..90 THEN c + 32 ELSE c

\* SQLite lower(): ASCII letters to lower case
Lower(s) == [i \in 1..Len(s) |-> LowerChar(s[i])]

\* len(month) != 7 or month[4] != "-"  raises
MonthShapeOk(m) == Len(m) = 7 /\ m[5] = 45

\* iso_date[:7]; substr(txn_date,1,7)
month_from_date(d) == SubSeq(d, 1, IF Len(d) < 7 THEN Len(d) ELSE 7)

\* (note or "").strip() if note else None
NoteValue(note) == IF note = Null \/ note = <<>> THEN Null ELSE Strip(note)

----------------------------------------------------------------------------
(* Tables.  Rows of owners, categories, bills, accounts and transactions    *)
(* are kept in insertion order and a row's id is its position; no row of    *)
(* any table is ever deleted.                                               *)

SeedOwners ==
    << [system_key |-> <<115, 104, 97, 114, 101, 100>>,
        display_name |-> <<83, 104, 97, 114, 101, 100>>, sort_order |-> 0],
       [system_key |-> <<112, 101, 114, 115, 111, 110, 95, 49>>,
        display_name |-> <<80, 101, 114, 115, 111, 110, 32, 49>>, sort_order |-> 1],
       [system_key |-> <<112, 101, 114, 115, 111, 110, 95, 50>>,
        display_name |-> <<80, 101, 114, 115, 111, 110, 32, 50>>, sort_order |-> 2] >>

\* budget.db after init_db() on a fresh file
init_db ==
    [owners |-> SeedOwners,
     categories |-> <<>>,
     bills |-> <<>>,
     bill_payments |-> {},
     accounts |-> <<>>,
     snapshots |-> {},
     txns |-> <<>>,
     budgets |-> {},
     closings |-> {}]

\* the uniqueness constraint of owners.system_key
owner_key_conflict(d, key) == \E i \in DOMAIN d.owners : d.owners[i].system_key = key

\* init_db() on an existing file: INSERT OR IGNORE of the three seed rows
RECURSIVE seed_owners(_, _)
seed_owners(d, seeds) ==
    IF seeds = <<>> THEN d
    ELSE seed_owners(IF owner_key_conflict(d, Head(seeds).system_key) THEN d
                     ELSE [d EXCEPT !.owners = Append(@, Head(seeds))],
                     Tail(seeds))

is_month_closed(d, month) == \E r \in d.closings : r.month = Strip(month)

ActiveBills(d) == {i \in DOMAIN d.bills : d.bills[i].active}

\* the uniqueness constraint of bill_payments: one row per (bill_id, month)
bill_payment_conflict(d, bill_id, m) ==
    \E r \in d.bill_payments : r.bill_id = bill_id /\ r.month = m

\* faulty variant: a plain INSERT, also for a bill that has its row
ensure_rows_plain_insert(d, month) ==
    LET m == Strip(month)
    IN  [d EXCEPT !.bill_payments = @ \cup
            {[bill_id |-> i, month |-> m, paid |-> FALSE, paid_amount |-> NullNum,
              paid_date |-> Null, note |-> Null] : i \in ActiveBills(d)}]

\* faulty variant: INSERT OR REPLACE, the row of an active bill is reset
ensure_rows_replacing(d, month) ==
    LET m == Strip(month)
    IN  [d EXCEPT !.bill_payments =
            {r \in @ : ~ (r.bill_id \in ActiveBills(d) /\ r.month = m)} \cup
            {[bill_id |-> i, month |-> m, paid |-> FALSE, paid_amount |-> NullNum,
              paid_date |-> Null, note |-> Null] : i \in ActiveBills(d)}]

\* INSERT OR IGNORE of an unpaid row per active bill for the month
ensure_bill_payment_rows(d, month) ==
    LET m == Strip(month)
        missing == {i \in ActiveBills(d) : ~ bill_payment_conflict(d, i, m)}
    IN  [d EXCEPT !.bill_payments = @ \cup
            {[bill_id |-> i, month |-> m, paid |-> FALSE, paid_amount |-> NullNum,
              paid_date |-> Null, note |-> Null] : i \in missing}]

bills_due_view(d, month) == ensure_bill_payment_rows(d, month)

close_month_raises(month) == ~ MonthShapeOk(Strip(month))

\* faulty variant: the already-closed return is missing
close_month_again(d, month, note, t) ==
    LET m == Strip(month)
    IN  IF close_month_raises(month) THEN d
        ELSE [ensure_bill_payment_rows(d, m) EXCEPT !.closings = @ \cup
                 {[month |-> m, closed_at |-> t, note |-> NoteValue(note)]}]

\* faulty variant: the new row replaces the table
close_month_replacing(d, month, note, t) ==
    LET m == Strip(month)
    IN  IF close_month_raises(month) THEN d
        ELSE IF is_month_closed(d, m) THEN d
        ELSE [ensure_bill_payment_rows(d, m) EXCEPT !.closings =
                 {[month |-> m, closed_at |-> t, note |-> NoteValue(note)]}]

\* faulty variant: the closing row is inserted without materializing the payment rows
close_month_without_rows(d, month, note, t) ==
    LET m == Strip(month)
    IN  IF close_month_raises(month) THEN d
        ELSE IF is_month_closed(d, m) THEN d
        ELSE [d EXCEPT !.closings = @ \cup
                 {[month |-> m, closed_at |-> t, note |-> NoteValue(note)]}]

\* faulty variant: the payment rows are materialized before the month is validated
close_month_ensure_first(d, month, note, t) ==
    LET m == Strip(month)
        e == ensure_bill_payment_rows(d, m)
    IN  IF close_month_raises(month) THEN e
        ELSE IF is_month_closed(d, m) THEN d
        ELSE [e EXCEPT !.closings = @ \cup
                 {[month |-> m, closed_at |-> t, note |-> NoteValue(note)]}]

close_month(d, month, note, t) ==
    LET m == Strip(month)
    IN  IF close_month_raises(month) THEN d
        ELSE IF is_month_closed(d, m) THEN d
        ELSE [ensure_bill_payment_rows(d, m) EXCEPT !.closings = @ \cup
                 {[month |-> m, closed_at |-> t, note |-> NoteValue(note)]}]

----------------------------------------------------------------------------
(* Owners and categories *)

\* every owner id matching lower(display_name)=lower(s) OR lower(system_key)=lower(s)
OwnersMatching(d, label) ==
    LET key == Lower(Strip(label))
    IN  {i \in DOMAIN d.owners :
            Lower(d.owners[i].display_name) = key \/ Lower(d.owners[i].system_key) = key}

\* None (0) for an empty or unknown label, else the id of the matching row
owner_id_from_label_or_key(d, label) ==
    LET found == OwnersMatching(d, label)
    IN  IF Strip(label) = <<>> \/ found = {} THEN 0
        ELSE CHOOSE i \in found : \A j \in found : i <= j

CategoriesMatching(d, name) ==
    LET key == Lower(Strip(name))
    IN  {i \in DOMAIN d.categories : Lower(d.categories[i].name) = key}

add_category_raises(name) == Strip(name) = <<>>

\* the uniqueness constraint of categories.name (case-insensitive)
category_name_conflict(d, name) == CategoriesMatching(d, name) # {}

\* INSERT OR IGNORE: a name that collides with a stored one is dropped
add_category(d, name) ==
    IF add_category_raises(name) \/ category_name_conflict(d, name) THEN d
    ELSE [d EXCEPT !.categories = Append(@, [name |-> Strip(name), active |-> TRUE])]

\* the id get_or_create_category_id returns
category_id_for(d, name) ==
    LET found == CategoriesMatching(d, name)
    IN  IF found # {} THEN CHOOSE i \in found : \A j \in found : i <= j
        ELSE Len(d.categories) + 1

\* faulty variant: the lookup is WHERE name=?
get_or_create_exact_name(d, name) ==
    IF Strip(name) = <<>> \/ \E i \in DOMAIN d.categories : d.categories[i].name = Strip(name)
    THEN d
    ELSE [d EXCEPT !.categories = Append(@, [name |-> Strip(name), active |-> TRUE])]

\* the table after get_or_create_category_id
get_or_create_category_id(d, name) ==
    IF Strip(name) = <<>> \/ CategoriesMatching(d, name) # {} THEN d
    ELSE [d EXCEPT !.categories = Append(@, [name |-> Strip(name), active |-> TRUE])]

set_category_active(d, category_id, active) ==
    IF category_id \in DOMAIN d.categories
    THEN [d EXCEPT !.categories[category_id].active = active]
    ELSE d

\* UPDATE categories SET name=? WHERE id=?; a name that collides with the name of
\* another row fails on the uniqueness constraint
rename_category(d, category_id, new_name) ==
    IF \/ Strip(new_name) = <<>>
       \/ category_id \notin DOMAIN d.categories
       \/ category_name_conflict([d EXCEPT !.categories[category_id].name = <<>>], new_name)
    THEN d
    ELSE [d EXCEPT !.categories[category_id].name = Strip(new_name)]

ActiveCategories(d) == {i \in DOMAIN d.categories : d.categories[i].active}

----------------------------------------------------------------------------
(* Bills and bill payments *)

add_bill_raises(name, due_day) ==
    Strip(name) = <<>> \/ (due_day # NullNum /\ ~ (1 <= due_day[1] /\ due_day[1] <= 31))

add_bill(d, owner_id, name, due_day, default_amount) ==
    IF add_bill_raises(name, due_day) THEN d
    ELSE [d EXCEPT !.bills = Append(@,
            [owner_id |-> owner_id, name |-> Strip(name),
             due_day |-> IF due_day = NullNum \/ due_day[1] = 0 THEN NullNum ELSE due_day,
             default_amount |-> default_amount, active |-> TRUE])]

set_bill_active(d, bill_id, active) ==
    IF bill_id \in DOMAIN d.bills THEN [d EXCEPT !.bills[bill_id].active = active] ELSE d

\* faulty variant: the UPDATE is WHERE month=?
set_bill_paid_whole_month(d, month, bill_id, paid, paid_amount, paid_date, note) ==
    LET m == Strip(month)
        d1 == ensure_bill_payment_rows(d, m)
    IN  [d1 EXCEPT !.bill_payments =
            {IF r.month = m
             THEN [r EXCEPT !.paid = paid, !.paid_amount = paid_amount,
                            !.paid_date = paid_date, !.note = NoteValue(note)]
             ELSE r : r \in @}]

\* ensure the month's rows, then UPDATE ... WHERE bill_id=? AND month=?
set_bill_paid(d, month, bill_id, paid, paid_amount, paid_date, note) ==
    LET m == Strip(month)
        d1 == ensure_bill_payment_rows(d, m)
    IN  [d1 EXCEPT !.bill_payments =
            {IF r.bill_id = bill_id /\ r.month = m
             THEN [r EXCEPT !.paid = paid, !.paid_amount = paid_amount,
                            !.paid_date = paid_date, !.note = NoteValue(note)]
             ELSE r : r \in @}]

----------------------------------------------------------------------------
(* Accounts and snapshots *)

AccountTypes == {"CREDIT_CARD", "LOAN"}

add_account_raises(name, acc_type) == Strip(name) = <<>> \/ acc_type \notin AccountTypes

add_account(d, owner_id, name, acc_type, credit_limit, start_balance) ==
    IF add_account_raises(name, acc_type) THEN d
    ELSE [d EXCEPT !.accounts = Append(@,
            [owner_id |-> owner_id, name |-> Strip(name), type |-> acc_type,
             credit_limit |-> credit_limit, start_balance |-> start_balance,
             active |-> TRUE])]

ActiveAccounts(d) == {i \in DOMAIN d.accounts : d.accounts[i].active}

upsert_snapshot_raises(month) == ~ MonthShapeOk(Strip(month))

\* INSERT ... ON CONFLICT(account_id, month) DO UPDATE SET balance, payment
UpsertSnapshotRow(rows, row) ==
    {r \in rows : ~ (r.account_id = row.account_id /\ r.month = row.month)} \cup {row}

upsert_snapshot(d, account_id, month, balance, payment) ==
    IF upsert_snapshot_raises(month) THEN d
    ELSE [d EXCEPT !.snapshots = UpsertSnapshotRow(@,
            [account_id |-> account_id, month |-> Strip(month),
             balance |-> balance, payment |-> payment])]

----------------------------------------------------------------------------
(* Transactions *)

add_transaction_raises(amount) == amount <= 0

TxnRow(txn_date, owner_id, category_id, amount) ==
    [txn_date |-> txn_date, owner_id |-> owner_id, category_id |-> category_id,
     amount |-> amount, deleted_at |-> NullNum]

add_transaction(d, txn_date, owner_id, category_id, amount) ==
    IF add_transaction_raises(amount) THEN d
    ELSE [d EXCEPT !.txns = Append(@, TxnRow(txn_date, owner_id, category_id, amount))]

\* one INSERT per prepared row, in order, with no check of the amount
RECURSIVE bulk_rows(_)
bulk_rows(rows) ==
    IF rows = <<>> THEN <<>>
    ELSE <<TxnRow(Head(rows).txn_date, Head(rows).owner_id, Head(rows).category_id,
                  Head(rows).amount)>> \o bulk_rows(Tail(rows))

\* faulty variant: only the first row is inserted
bulk_add_first_only(d, rows) ==
    [d EXCEPT !.txns = @ \o bulk_rows(IF rows = <<>> THEN <<>> ELSE <<Head(rows)>>)]

bulk_add_transactions(d, rows) == [d EXCEPT !.txns = @ \o bulk_rows(rows)]

\* faulty variant: DELETE FROM transactions WHERE id=?
hard_delete_transaction(d, txn_id, t) ==
    IF txn_id \in DOMAIN d.txns
    THEN [d EXCEPT !.txns = SubSeq(@, 1, txn_id - 1) \o SubSeq(@, txn_id + 1, Len(@))]
    ELSE d

soft_delete_transaction(d, txn_id, t) ==
    IF txn_id \in DOMAIN d.txns THEN [d EXCEPT !.txns[txn_id].deleted_at = <<t>>] ELSE d

\* ids of the rows get_transactions(month) returns (all months when month is Null)
get_transactions(d, month) ==
    {i \in DOMAIN d.txns :
        /\ d.txns[i].deleted_at = NullNum
        /\ (month = Null \/ month = <<>> \/ month_from_date(d.txns[i].txn_date) = month)}

----------------------------------------------------------------------------
(* Budgets *)

upsert_budget_raises(month) == ~ MonthShapeOk(Strip(month))

\* faulty variant: a plain INSERT
InsertBudgetRow(rows, row) == rows \cup {row}

\* INSERT ... ON CONFLICT(month, owner_id, category_id) DO UPDATE SET planned_amount
UpsertBudgetRow(rows, row) ==
    {r \in rows : ~ (r.month = row.month /\ r.owner_id = row.owner_id
                     /\ r.category_id = row.category_id)} \cup {row}

upsert_budget(d, month, owner_id, category_id, planned_amount) ==
    IF upsert_budget_raises(month) THEN d
    ELSE [d EXCEPT !.budgets = UpsertBudgetRow(@,
            [month |-> Strip(month), owner_id |-> owner_id, category_id |-> category_id,
             planned_amount |-> planned_amount])]

----------------------------------------------------------------------------
(* The Streamlit script (app.py).  Every click or widget change runs the    *)
(* whole script; a handler that ends in st.rerun() is followed by a fresh   *)
(* run with no button pressed.                                              *)

UIMonths == {M1, M2}

PKey(action_key, month) == [action |-> action_key, month |-> month]

\* faulty variant: the flag is never raised
arm_never(d, p, month, action_key) == p

\* arm_two_step_if_closed: raise the flag when the month is closed
arm_two_step_if_closed(d, p, month, action_key) ==
    IF is_month_closed(d, month) THEN p \cup {PKey(action_key, month)} ELSE p

\* confirm_bar_if_pending with no button pressed: the flag is dropped for an open month
confirm_bar_idle(d, p, month, action_key) ==
    IF ~ is_month_closed(d, Strip(month)) THEN p \ {PKey(action_key, Strip(month))} ELSE p

\* confirm_bar_if_pending shows Confirm Save / Cancel
confirm_bar_shown(d, p, month, action_key) ==
    is_month_closed(d, Strip(month)) /\ PKey(action_key, Strip(month)) \in p

\* faulty variant: the flag is left set
confirm_bar_flag_kept(p, month, action_key) == p

\* Confirm Save or Cancel pressed: the flag is set to False
confirm_bar_clicked(p, month, action_key) == p \ {PKey(action_key, Strip(month))}

NoFile == [present |-> FALSE, description |-> FALSE, rows |-> <<>>]

IsIsoDate(s) ==
    /\ Len(s) = 10
    /\ s[5] = 45 /\ s[8] = 45
    /\ \A i \in {1, 2, 3, 4, 6, 7, 9, 10} : s[i] \in Digits

\* faulty variant: bad_amt is not looked at
CsvDatesValid(rows) == \A i \in DOMAIN rows : IsIsoDate(Strip(rows[i].txn_date))

\* bad_date.empty and bad_amt.empty
CsvRowsValid(rows) ==
    \A i \in DOMAIN rows :
        IsIsoDate(Strip(rows[i].txn_date)) /\ rows[i].amount # NullNum /\ rows[i].amount[1] > 0

\* the loop over df_norm.iterrows(): resolve the owner, get-or-create the category.
\* get_or_create_category_id raises for a category that is blank after strip, and
\* nothing catches it: the loop ends there (raised) with the rows prepared so far
RECURSIVE PrepareRows(_, _)
PrepareRows(d, rows) ==
    IF rows = <<>> THEN [db |-> d, prepared |-> <<>>, unresolved |-> {}, raised |-> FALSE]
    ELSE LET r == Head(rows)
             owner_id == owner_id_from_label_or_key(d, r.owner)
         IN  IF owner_id = 0
             THEN LET rest == PrepareRows(d, Tail(rows))
                  IN  [rest EXCEPT !.unresolved = @ \cup {Strip(r.owner)}]
             ELSE IF Strip(r.category) = <<>>
             THEN [db |-> d, prepared |-> <<>>, unresolved |-> {}, raised |-> TRUE]
             ELSE LET rest == PrepareRows(get_or_create_category_id(d, r.category), Tail(rows))
                  IN  [rest EXCEPT !.prepared =
                          <<[txn_date |-> Strip(r.txn_date), owner_id |-> owner_id,
                             category_id |-> category_id_for(d, r.category),
                             amount |-> r.amount[1]]>> \o @]

\* the Data Tools tab up to its buttons, for the file in the uploader.  The run stops
\* (stopped) at df_norm.get("description", "").astype for a file with no description
\* column, in the loop at a blank category, and at DataFrame(prepared_rows).drop(
\* columns=...) when no row was prepared and no owner is unresolved
csv_prepare(d, file) ==
    IF ~ file.present
    THEN [db |-> d, prepared |-> <<>>, unresolved |-> {}, stopped |-> FALSE]
    ELSE IF ~ file.description
    THEN [db |-> d, prepared |-> <<>>, unresolved |-> {}, stopped |-> TRUE]
    ELSE IF ~ CsvRowsValid(file.rows)
    THEN [db |-> d, prepared |-> <<>>, unresolved |-> {}, stopped |-> FALSE]
    ELSE LET p == PrepareRows(d, file.rows)
         IN  [db |-> p.db, prepared |-> p.prepared, unresolved |-> p.unresolved,
              stopped |-> p.raised \/ (p.unresolved = {} /\ p.prepared = <<>>)]

months_touched(prepared) == {month_from_date(prepared[i].txn_date) : i \in DOMAIN prepared}

closed_months(d, prepared) == {m \in months_touched(prepared) : is_month_closed(d, m)}

\* a < b for str in Python and for TEXT under the BINARY collation of SQLite: by code
\* point, a proper prefix first
RECURSIVE StrLess(_, _)
StrLess(a, b) ==
    IF b = <<>> THEN FALSE
    ELSE IF a = <<>> THEN TRUE
    ELSE IF Head(a) = Head(b) THEN StrLess(Tail(a), Tail(b))
    ELSE Head(a) < Head(b)

\* "_".join(sorted(S))
RECURSIVE JoinSorted(_)
JoinSorted(S) ==
    IF S = {} THEN <<>>
    ELSE LET lo == CHOOSE x \in S : \A y \in S \ {x} : StrLess(x, y)
         IN  IF S = {lo} THEN lo ELSE lo \o <<95>> \o JoinSorted(S \ {lo})

\* pending_csv_import_<months joined>, or pending_csv_import
csv_pending_key(prepared) == PKey("csv_import", JoinSorted(months_touched(prepared)))

\* the months found in the data, of which month_selector makes its options.  No
\* function writes the income table; with fewer than 48 months LIMIT drops none
get_known_months(d) ==
    {m \in {month_from_date(d.txns[i].txn_date) :
                i \in {j \in DOMAIN d.txns : d.txns[j].deleted_at = NullNum}}
            \cup {r.month : r \in d.budgets} \cup {r.month : r \in d.bill_payments}
            \cup {r.month : r \in d.snapshots} \cup {r.month : r \in d.closings} :
        m # Null /\ Len(m) = 7}

\* month_selector: the months of the selectbox, the known ones and the current one
month_options(d) == get_known_months(d) \cup {M1}

\* The part of a run that is not a handler, tab by tab.  Each month_selector stops
\* the run at options.index(...) when the month it has stored is not among its
\* options.  pick is <<>>, or the selector and the month chosen in it (from the list
\* or through Custom) in this run.  z is the store the part before has left.

\* Accounts, Debt Progress, Monthly Closeout, Data Tools: the upload is prepared
DataTools(x, sel, file) ==
    IF \A key \in {"snap_month", "prog_month", "close_month", "export_month"} :
          sel[key] \in month_options(x)
    THEN csv_prepare(x, file).db
    ELSE x

\* Transactions, Budgets, Bills Due: the payment rows of the month are materialised
BillsDue(x, sel, file, pick) ==
    IF \A key \in {"txn_month", "bud_month", "bills_month"} : sel[key] \in month_options(x)
    THEN LET m == IF pick # <<>> /\ pick[1] = "bills_month" THEN pick[2]
                  ELSE sel["bills_month"]
         IN  CHOOSE y \in {DataTools(z, sel, file) : z \in {bills_due_view(x, m)}} : TRUE
    ELSE x

\* Dashboard: the payment rows of the month are materialised
Dashboard(x, sel, file, pick) ==
    IF sel["dash_month"] \in month_options(x)
    THEN LET m == IF pick # <<>> /\ pick[1] = "dash_month" THEN pick[2]
                  ELSE sel["dash_month"]
         IN  CHOOSE y \in {BillsDue(z, sel, file, pick) : z \in {bills_due_view(x, m)}} : TRUE
    ELSE x

\* the whole run: init_db() seeds the owners, then the tabs
Render(d, sel, file, pick) ==
    CHOOSE y \in {Dashboard(z, sel, file, pick) :
                     z \in {seed_owners(x, SeedOwners) : x \in {d}}} : TRUE

GatedRows(d) == Len(d.txns) + Cardinality(d.budgets) + Cardinality(d.snapshots)

Propose(pr, key, req) ==
    {x \in pr : ~ (x.action = key.action /\ x.month = key.month)}
        \cup {[action |-> key.action, month |-> key.month, req |-> req]}

\* the last click or call: what it was, its target month, what it asked for, its outcome
Last(op, month, req, res) == [op |-> op, month |-> month, req |-> req, res |-> res]

----------------------------------------------------------------------------
(* Reports.  A result set is the sequence of its rows.  Amounts are whole    *)
(* numbers, which ROUND(x, 2) returns as they are.                          *)

\* faulty variant: the UPDATE has no WHERE clause
rename_all_owners(d, owner_id, new_name) ==
    IF Strip(new_name) = <<>> \/ owner_id \notin DOMAIN d.owners THEN d
    ELSE [d EXCEPT !.owners = [i \in DOMAIN @ |-> [@[i] EXCEPT !.display_name = Strip(new_name)]]]

\* UPDATE owners SET display_name=? WHERE id=?
rename_owner(d, owner_id, new_name) ==
    IF Strip(new_name) = <<>> \/ owner_id \notin DOMAIN d.owners THEN d
    ELSE [d EXCEPT !.owners[owner_id].display_name = Strip(new_name)]

\* the live rows joined with their owner and category, ORDER BY txn_date ASC
\* (rows of one date in insertion order)
export_transactions_rows(d, month) ==
    LET ids == {i \in DOMAIN d.txns :
                   /\ d.txns[i].deleted_at = NullNum
                   /\ d.txns[i].owner_id \in DOMAIN d.owners
                   /\ d.txns[i].category_id \in DOMAIN d.categories
                   /\ (month = Null \/ month = <<>>
                          \/ month_from_date(d.txns[i].txn_date) = month)}
        Before(i, j) ==
            \/ StrLess(d.txns[i].txn_date, d.txns[j].txn_date)
            \/ d.txns[i].txn_date = d.txns[j].txn_date /\ i < j
    IN  [k \in 1..Cardinality(ids) |->
            LET i == CHOOSE x \in ids : Cardinality({y \in ids : Before(y, x)}) = k - 1
            IN  [txn_date |-> d.txns[i].txn_date,
                 owner |-> d.owners[d.txns[i].owner_id].display_name,
                 category |-> d.categories[d.txns[i].category_id].name,
                 amount |-> d.txns[i].amount]]

\* faulty variant: every live row counts, whatever its month
act_any_month(d, m, o, c) ==
    {i \in DOMAIN d.txns :
        /\ d.txns[i].deleted_at = NullNum
        /\ d.txns[i].owner_id = o
        /\ d.txns[i].category_id = c}

\* WITH act AS (...): the rows summed for the group (owner_id, category_id)
act(d, m, o, c) ==
    {i \in DOMAIN d.txns :
        /\ d.txns[i].deleted_at = NullNum
        /\ month_from_date(d.txns[i].txn_date) = m
        /\ d.txns[i].owner_id = o
        /\ d.txns[i].category_id = c}

\* faulty variant: an inner join, only the pairs with a budget or a transaction
pairs_with_data(d, m) ==
    {p \in (DOMAIN d.owners) \X ActiveCategories(d) :
        \/ act(d, m, p[1], p[2]) # {}
        \/ \E r \in d.budgets : r.month = m /\ r.owner_id = p[1] /\ r.category_id = p[2]}

\* FROM owners o CROSS JOIN categories c ... WHERE c.active=1
owner_category_pairs(d, m) == (DOMAIN d.owners) \X ActiveCategories(d)

\* the rows of planned_vs_actual, ORDER BY o.sort_order, c.name; none when the
\* month is rejected
planned_vs_actual(d, month) ==
    LET m == Strip(month)
        RECURSIVE Sum(_)
        Sum(S) == IF S = {} THEN 0
                  ELSE LET x == CHOOSE x \in S : TRUE
                       IN  d.txns[x].amount + Sum(S \ {x})
        b(o, c) == {r \in d.budgets : r.month = m /\ r.owner_id = o /\ r.category_id = c}
        planned(o, c) == IF b(o, c) = {} THEN 0 ELSE (CHOOSE r \in b(o, c) : TRUE).planned_amount
        actual(o, c) == IF act(d, m, o, c) = {} THEN 0 ELSE Sum(act(d, m, o, c))
        pairs == owner_category_pairs(d, m)
        Before(p, q) ==
            \/ d.owners[p[1]].sort_order < d.owners[q[1]].sort_order
            \/ /\ d.owners[p[1]].sort_order = d.owners[q[1]].sort_order
               /\ StrLess(d.categories[p[2]].name, d.categories[q[2]].name)
    IN  IF ~ MonthShapeOk(m) THEN <<>>
        ELSE [k \in 1..Cardinality(pairs) |->
                LET p == CHOOSE x \in pairs : Cardinality({y \in pairs : Before(y, x)}) = k - 1
                IN  [owner |-> d.owners[p[1]].display_name,
                     category |-> d.categories[p[2]].name,
                     planned |-> planned(p[1], p[2]),
                     actual |-> actual(p[1], p[2]),
                     variance |-> planned(p[1], p[2]) - actual(p[1], p[2])]]

\* faulty variant: ORDER BY month ASC, the oldest earlier month
prev_month_oldest(d, account_id, m) ==
    LET earlier == {r.month : r \in {x \in d.snapshots :
                                        x.account_id = account_id /\ StrLess(x.month, m)}}
    IN  IF earlier = {} THEN Null
        ELSE CHOOSE x \in earlier : \A y \in earlier \ {x} : StrLess(x, y)

\* SELECT month FROM account_snapshots WHERE account_id=a.id AND month < ?
\* ORDER BY month DESC LIMIT 1
prev_month(d, account_id, m) ==
    LET earlier == {r.month : r \in {x \in d.snapshots :
                                        x.account_id = account_id /\ StrLess(x.month, m)}}
    IN  IF earlier = {} THEN Null
        ELSE CHOOSE x \in earlier : \A y \in earlier \ {x} : StrLess(y, x)

\* accounts JOIN owners LEFT JOIN the snapshot of the month LEFT JOIN the snapshot
\* of the previous month, WHERE a.active=1 ORDER BY o.display_name, a.type, a.name
latest_snapshot_by_account(d, month) ==
    LET m == Strip(month)
        ids == {a \in ActiveAccounts(d) : d.accounts[a].owner_id \in DOMAIN d.owners}
        snap(a, mm) == {r \in d.snapshots : r.account_id = a /\ r.month = mm}
        balance(S) == IF S = {} THEN NullNum ELSE <<(CHOOSE r \in S : TRUE).balance>>
        payment(S) == IF S = {} THEN NullNum ELSE <<(CHOOSE r \in S : TRUE).payment>>
        owner(a) == d.owners[d.accounts[a].owner_id].display_name
        Before(a, b) ==
            \/ StrLess(owner(a), owner(b))
            \/ /\ owner(a) = owner(b)
               /\ \/ d.accounts[a].type = "CREDIT_CARD" /\ d.accounts[b].type = "LOAN"
                  \/ /\ d.accounts[a].type = d.accounts[b].type
                     /\ StrLess(d.accounts[a].name, d.accounts[b].name)
    IN  [k \in 1..Cardinality(ids) |->
            LET a == CHOOSE x \in ids : Cardinality({y \in ids : Before(y, x)}) = k - 1
            IN  [owner |-> owner(a),
                 account |-> d.accounts[a].name,
                 type |-> d.accounts[a].type,
                 credit_limit |-> d.accounts[a].credit_limit,
                 start_balance |-> d.accounts[a].start_balance,
                 account_id |-> a,
                 curr_balance |-> balance(snap(a, m)),
                 curr_payment |-> payment(snap(a, m)),
                 prev_balance |-> balance(snap(a, prev_month(d, a, m))),
                 prev_payment |-> payment(snap(a, prev_month(d, a, m)))]]

----------------------------------------------------------------------------
(* Debt Progress.  A metric is <<>> for None and <<v>> for a value; percentages *)
(* are in tenths of a percent, as round(x, 1) keeps them.                       *)

\* round(100.0 * n / d, 1) in tenths of a percent, for whole n and d > 0.  The
\* quotient is a double, and round() goes by its binary value.  h is the quotient in
\* twentieths of a percent: unless it is odd the nearest tenth is not in doubt.  An
\* odd h that is a multiple of 5 is a multiple of a quarter, which a double holds
\* exactly, and the tie goes to the even tenth (0.25 -> 0.2, -0.75 -> -0.8).  Any
\* other odd h is a fifth scaled by a power of 2, whose binary expansion has period 4:
\* the double, cut after 53 bits with the leading bit at 2^log2, lies above the
\* quotient when the part cut off is 3/5 or 4/5 of the last bit, else below it
\* (19.95 -> 19.9, 0.05 -> 0.1)
RoundTenths(n, d) ==
    LET h == (2000 * n) \div d
        a == IF h < 0 THEN -h ELSE h
        RECURSIVE log2(_, _)
        log2(p, q) == IF p >= 2 * q THEN 1 + log2(p, 2 * q)
                      ELSE IF p < q THEN log2(2 * p, q) - 1
                      ELSE 0
        up == IF a % 5 = 0 THEN (a \div 2) % 2 = 1
              ELSE (a * 2 ^ ((50 - log2(a, 20)) % 4)) % 5 >= 3
        m == (a \div 2) + (IF up THEN 1 ELSE 0)
    IN  IF (2000 * n) % d # 0 \/ h % 2 = 0 THEN (2000 * n + d) \div (2 * d)
        ELSE IF h < 0 THEN -m ELSE m

\* faulty variant: a missing current balance counts as 0
pct_used_missing_as_zero(r) ==
    IF r.credit_limit # NullNum /\ r.credit_limit[1] > 0
    THEN <<RoundTenths(IF r.curr_balance = NullNum THEN 0 ELSE r.curr_balance[1],
                       r.credit_limit[1])>>
    ELSE <<>>

pct_used(r) ==
    IF r.credit_limit # NullNum /\ r.credit_limit[1] > 0 /\ r.curr_balance # NullNum
    THEN <<RoundTenths(r.curr_balance[1], r.credit_limit[1])>>
    ELSE <<>>

payoff_pct(r) ==
    IF r.start_balance # NullNum /\ r.start_balance[1] > 0 /\ r.curr_balance # NullNum
    THEN <<RoundTenths(r.start_balance[1] - r.curr_balance[1], r.start_balance[1])>>
    ELSE <<>>

delta_balance(r) ==
    IF r.curr_balance = NullNum \/ r.prev_balance = NullNum THEN <<>>
    ELSE <<r.curr_balance[1] - r.prev_balance[1]>>

----------------------------------------------------------------------------
(* Inputs *)

CategoryNames == {<<70>>}
BillForms == {[owner_id |-> 1, name |-> <<82>>, due_day |-> 1, default_amount |-> 5]}
AccountForms ==
    {[owner_id |-> 1, name |-> <<86>>, type |-> "CREDIT_CARD", credit_limit |-> 50,
      start_balance |-> 100]}
CloseNotes == {<<111, 107>>}
OwnerNames == {<<83, 97, 109>>, <<32, 65, 110, 110>>, <<32>>}
ExpenseForms ==
    {[txn_date |-> dt, owner_id |-> f[1], amount |-> f[2]] :
        dt \in {D1, D2}, f \in {<<1, 1>>, <<2, 2>>}}
BudgetForms == {[owner_id |-> 1, planned |-> 10], [owner_id |-> 2, planned |-> 20]}
PaymentForms ==
    {[paid |-> TRUE, paid_amount |-> 5, paid_date |-> D1, note |-> <<120>>],
     [paid |-> FALSE, paid_amount |-> 0, paid_date |-> D1, note |-> <<>>]}
SnapshotForms == {[balance |-> 10, payment |-> 1], [balance |-> 20, payment |-> 2]}

CsvRow(dt, owner, category, amount) ==
    [txn_date |-> dt, owner |-> owner, category |-> category, amount |-> amount]

\* Shared is the system_key 'shared'; Nobody ('Bob') is the label of no owner
CsvFiles ==
    LET Shared == <<115, 104, 97, 114, 101, 100>>
        Nobody == <<66, 111, 98>>
    IN
    {[present |-> TRUE, description |-> FALSE, rows |-> <<CsvRow(D1, Shared, <<70>>, <<3>>)>>],
     [present |-> TRUE, description |-> TRUE, rows |-> <<>>],
     [present |-> TRUE, description |-> TRUE, rows |-> <<CsvRow(D1, Shared, <<102>>, <<3>>)>>],
     [present |-> TRUE, description |-> TRUE,
      rows |-> <<CsvRow(D1, Shared, <<71>>, <<3>>), CsvRow(D2, Nobody, <<70>>, <<4>>)>>],
     [present |-> TRUE, description |-> TRUE,
      rows |-> <<CsvRow(D1, Shared, <<70>>, <<3>>), CsvRow(D2, Shared, <<70>>, <<4>>)>>],
     [present |-> TRUE, description |-> TRUE,
      rows |-> <<CsvRow(D1, Shared, <<70>>, <<3>>), CsvRow(D2, Shared, <<32>>, <<4>>)>>],
     [present |-> TRUE, description |-> TRUE, rows |-> <<CsvRow(D2, Shared, <<70>>, <<0>>)>>]}

----------------------------------------------------------------------------
(* Initial state: a fresh budget.db, a fresh browser session *)

Areas == {"expense", "budget", "bills", "accounts", "csv", "owners", "categories", "reports"}

Init ==
    /\ db = init_db
    /\ now = 1
    /\ pending = {}
    /\ selected = [key \in {Selectors[i] : i \in DOMAIN Selectors} |-> M1]
    /\ uploaded = NoFile
    /\ proposed = {}
    /\ area \in Areas
    /\ last = Last("start", <<>>, <<>>, "ok")

\* the run that follows a handler: st.rerun(), or the rest of the script
Rerun(d) == Render(d, selected, uploaded, <<>>)

\* the last finished run got past the first n month selectors, so the widgets
\* between selector n and selector n + 1 are on the page
Reached(n) == \A i \in 1..n : selected[Selectors[i]] \in month_options(db)

Session == <<selected, uploaded>>

\* each bill and each account of the input sets is entered once
HasBill(d, name) == \E i \in DOMAIN d.bills : d.bills[i].name = Strip(name)
HasAccount(d, name) == \E i \in DOMAIN d.accounts : d.accounts[i].name = Strip(name)

\* the forms of one area are used in a session; closing months and adding
\* categories are common to all
Use(a) == area = a /\ area' = area

----------------------------------------------------------------------------
(* Setup Wizard / Settings *)

\* The Setup Wizard is the first tab: its handlers come before every month selector,
\* so no stopped run keeps them from the page.  Settings, the last tab, has the same
\* name fields and an "Add category" button with the same calls.

\* "Add these categories" with one line in the text area; st.rerun() follows
AddCategory(name) ==
    /\ db' = Rerun(add_category(db, name))
    /\ db' # db
    /\ last' = Last("add_category", <<>>, <<>>, "ok")
    /\ UNCHANGED <<now, pending, proposed, area, Session>>

\* a changed name in "Name your buckets": rename_owner, then st.rerun() unless it raised
RenameOwner(o, new) ==
    /\ Use("owners")
    /\ new # db.owners[o].display_name
    /\ db' = Rerun(rename_owner(db, o, new))
    /\ last' = Last("rename_owner", <<>>, [owner_id |-> o, new_name |-> new],
                    IF Strip(new) = <<>> THEN "raised" ELSE "written")
    /\ UNCHANGED <<now, pending, proposed, Session>>

\* "Add starter bill"
AddBill(f) ==
    /\ Use("bills")
    /\ ~ HasBill(db, f.name)
    /\ db' = Rerun(add_bill(db, f.owner_id, f.name, <<f.due_day>>, <<f.default_amount>>))
    /\ last' = Last("add_bill", <<>>, <<>>, "ok")
    /\ UNCHANGED <<now, pending, proposed, Session>>

\* "Add starter account"; the Accounts tab has the same form
AddAccount(f) ==
    /\ Use("accounts")
    /\ ~ HasAccount(db, f.name)
    /\ db' = Rerun(add_account(db, f.owner_id, f.name, f.type,
                             IF f.type = "CREDIT_CARD" /\ f.credit_limit > 0
                             THEN <<f.credit_limit>> ELSE NullNum,
                             IF f.start_balance > 0 THEN <<f.start_balance>> ELSE NullNum))
    /\ last' = Last("add_account", <<>>, <<>>, "ok")
    /\ UNCHANGED <<now, pending, proposed, Session>>

\* Settings is the last tab: every selector and the CSV preparation come before it.
\* "Rename category" for the category picked: rename_category, then st.rerun() unless
\* it raised (a blank name, or the name of another category)
RenameCategory(c, new_name) ==
    /\ Use("categories")
    /\ Reached(8) /\ ~ csv_prepare(db, uploaded).stopped
    /\ db' = Rerun(rename_category(db, c, new_name))
    /\ last' = Last("rename_category", <<>>, [category_id |-> c, new_name |-> new_name],
                    IF rename_category(db, c, new_name) = db /\ db.categories[c].name # Strip(new_name)
                    THEN "raised" ELSE "written")
    /\ UNCHANGED <<now, pending, proposed, Session>>

\* "Deactivate" / "Activate" for the category picked
SetCategoryActive(c) ==
    /\ Use("categories")
    /\ Reached(8) /\ ~ csv_prepare(db, uploaded).stopped
    /\ db' = Rerun(set_category_active(db, c, ~ db.categories[c].active))
    /\ last' = Last("set_category_active", <<>>, c, "ok")
    /\ UNCHANGED <<now, pending, proposed, Session>>

----------------------------------------------------------------------------
(* Month selectors.  A month is chosen from the list or typed through     *)
(* Custom...; the selectbox is on the page when the last run reached it.   *)

SelectDashMonth(m) ==
    /\ Use("bills")
    /\ Reached(1)
    /\ m # selected["dash_month"]
    /\ selected' = [selected EXCEPT !["dash_month"] = m]
    /\ db' = Render(db, selected, uploaded, <<"dash_month", m>>)
    /\ last' = Last("view_dashboard", m, <<>>, "ok")
    /\ UNCHANGED <<now, pending, proposed, uploaded>>

SelectBillsMonth(m) ==
    /\ Use("bills")
    /\ Reached(4)
    /\ m # selected["bills_month"]
    /\ selected' = [selected EXCEPT !["bills_month"] = m]
    /\ db' = Render(db, selected, uploaded, <<"bills_month", m>>)
    /\ last' = Last("view_bills", m, <<>>, "ok")
    /\ UNCHANGED <<now, pending, proposed, uploaded>>

\* the other selectors: Budgets and Snapshots, each in the area of its form; the
\* Transactions filter, Debt Progress and Export, whose month only a listing uses, in
\* the reports area; Monthly Closeout, common to all areas
SelectMonth(n, m) ==
    /\ Selectors[n] \notin {"dash_month", "bills_month"}
    /\ Use(CASE Selectors[n] = "bud_month" -> "budget"
             [] Selectors[n] = "snap_month" -> "accounts"
             [] Selectors[n] \in {"txn_month", "prog_month", "export_month"} -> "reports"
             [] OTHER -> area)
    /\ Reached(n)
    /\ m # selected[Selectors[n]]
    /\ selected' = [selected EXCEPT ![Selectors[n]] = m]
    /\ db' = Render(db, selected, uploaded, <<Selectors[n], m>>)
    /\ last' = Last("select_month", m, Selectors[n], "ok")
    /\ UNCHANGED <<now, pending, proposed, uploaded>>

----------------------------------------------------------------------------
(* Monthly Closeout *)

CloseMonth(note) ==
    LET m == selected["close_month"]
    IN  /\ Reached(7)
        /\ ~ is_month_closed(db, m)
        /\ db' = Rerun(close_month(db, m, note, now))
        /\ now' = now + 1
        /\ last' = Last("close_month", m, note, "ok")
        /\ UNCHANGED <<pending, proposed, area, Session>>

----------------------------------------------------------------------------
(* The four gated forms.  A request is the row its write stores.            *)

Sync(pr, p) == {x \in pr : PKey(x.action, x.month) \in p}

\* ---- Add Expense ----
ExpenseReq(f, c) == TxnRow(f.txn_date, f.owner_id, c, f.amount)

WriteExpense(d, f, c) == add_transaction(d, f.txn_date, f.owner_id, c, f.amount)

SaveExpense(f, c) ==
    LET m == month_from_date(f.txn_date)
        p0 == confirm_bar_idle(db, pending, m, "add_expense")
    IN  /\ c \in ActiveCategories(db)
        /\ Use("expense")
        /\ Reached(1)
        /\ \/ /\ is_month_closed(db, m)
              /\ pending' = arm_two_step_if_closed(db, p0, m, "add_expense")
              /\ proposed' = Propose(proposed, PKey("add_expense", m), ExpenseReq(f, c))
              /\ db' = Rerun(db)
              /\ last' = Last("save_expense", m, ExpenseReq(f, c), "armed")
           \/ /\ ~ is_month_closed(db, m)
              /\ GatedRows(db) < MaxRows
              /\ pending' = p0
              /\ proposed' = Sync(proposed, p0)
              /\ db' = Rerun(WriteExpense(db, f, c))
              /\ last' = Last("save_expense", m, ExpenseReq(f, c), "written")
        /\ UNCHANGED <<now, Session>>

ConfirmExpense(f, c) ==
    LET m == month_from_date(f.txn_date)
    IN  /\ c \in ActiveCategories(db)
        /\ Use("expense")
        /\ Reached(1)
        /\ confirm_bar_shown(db, pending, m, "add_expense")
        /\ GatedRows(db) < MaxRows
        /\ pending' = confirm_bar_clicked(pending, m, "add_expense")
        /\ proposed' = Sync(proposed, pending')
        /\ db' = Rerun(WriteExpense(db, f, c))
        /\ last' = Last("confirm_expense", m, ExpenseReq(f, c), "written")
        /\ UNCHANGED <<now, Session>>

CancelExpense(m) ==
    /\ ActiveCategories(db) # {}
    /\ Use("expense")
    /\ Reached(1)
    /\ confirm_bar_shown(db, pending, m, "add_expense")
    /\ pending' = confirm_bar_clicked(pending, m, "add_expense")
    /\ proposed' = Sync(proposed, pending')
    /\ db' = Rerun(db)
    /\ last' = Last("cancel_expense", m, <<>>, "ok")
    /\ UNCHANGED <<now, Session>>

\* ---- Budgets ----
BudgetReq(m, f, c) ==
    [month |-> Strip(m), owner_id |-> f.owner_id, category_id |-> c, planned_amount |-> f.planned]

\* do_budget_write
WriteBudget(d, m, f, c) == upsert_budget(d, m, f.owner_id, c, f.planned)

BudgetFits(d, m, f, c) ==
    \/ GatedRows(d) < MaxRows
    \/ \E r \in d.budgets : r.month = m /\ r.owner_id = f.owner_id /\ r.category_id = c

SaveBudget(f, c) ==
    LET m == selected["bud_month"]
        p0 == confirm_bar_idle(db, pending, m, "save_budget")
    IN  /\ c \in ActiveCategories(db)
        /\ Use("budget")
        /\ Reached(3)
        /\ \/ /\ is_month_closed(db, m)
              /\ pending' = arm_two_step_if_closed(db, p0, m, "save_budget")
              /\ proposed' = Propose(proposed, PKey("save_budget", m), BudgetReq(m, f, c))
              /\ db' = Rerun(db)
              /\ last' = Last("save_budget", m, BudgetReq(m, f, c), "armed")
           \/ /\ ~ is_month_closed(db, m)
              /\ BudgetFits(db, m, f, c)
              /\ pending' = p0
              /\ proposed' = Sync(proposed, p0)
              /\ db' = Rerun(WriteBudget(db, m, f, c))
              /\ last' = Last("save_budget", m, BudgetReq(m, f, c), "written")
        /\ UNCHANGED <<now, Session>>

ConfirmBudget(f, c) ==
    LET m == selected["bud_month"]
    IN  /\ c \in ActiveCategories(db)
        /\ Use("budget")
        /\ Reached(3)
        /\ confirm_bar_shown(db, pending, m, "save_budget")
        /\ BudgetFits(db, m, f, c)
        /\ pending' = confirm_bar_clicked(pending, m, "save_budget")
        /\ proposed' = Sync(proposed, pending')
        /\ db' = Rerun(WriteBudget(db, m, f, c))
        /\ last' = Last("confirm_budget", m, BudgetReq(m, f, c), "written")
        /\ UNCHANGED <<now, Session>>

CancelBudget ==
    LET m == selected["bud_month"]
    IN  /\ ActiveCategories(db) # {}
        /\ Use("budget")
        /\ Reached(3)
        /\ confirm_bar_shown(db, pending, m, "save_budget")
        /\ pending' = confirm_bar_clicked(pending, m, "save_budget")
        /\ proposed' = Sync(proposed, pending')
        /\ db' = Rerun(db)
        /\ last' = Last("cancel_budget", m, <<>>, "ok")
        /\ UNCHANGED <<now, Session>>

\* ---- Bills Due ----
PaymentReq(m, b, f) ==
    [bill_id |-> b, month |-> Strip(m), paid |-> f.paid,
     paid_amount |-> IF f.paid THEN <<f.paid_amount>> ELSE NullNum,
     paid_date |-> IF f.paid THEN f.paid_date ELSE Null,
     note |-> NoteValue(f.note)]

\* do_bill_write
WritePayment(d, m, b, f) ==
    set_bill_paid(d, m, b, f.paid, IF f.paid THEN <<f.paid_amount>> ELSE NullNum,
                  IF f.paid THEN f.paid_date ELSE Null, f.note)

SavePayment(b, f) ==
    LET m == selected["bills_month"]
        p0 == confirm_bar_idle(db, pending, m, "save_bill_payment")
    IN  /\ b \in ActiveBills(db)
        /\ Use("bills")
        /\ Reached(4)
        /\ \/ /\ is_month_closed(db, m)
              /\ pending' = arm_two_step_if_closed(db, p0, m, "save_bill_payment")
              /\ proposed' = Propose(proposed, PKey("save_bill_payment", m), PaymentReq(m, b, f))
              /\ db' = Rerun(db)
              /\ last' = Last("save_bill_payment", m, PaymentReq(m, b, f), "armed")
           \/ /\ ~ is_month_closed(db, m)
              /\ pending' = p0
              /\ proposed' = Sync(proposed, p0)
              /\ db' = Rerun(WritePayment(db, m, b, f))
              /\ last' = Last("save_bill_payment", m, PaymentReq(m, b, f), "written")
        /\ UNCHANGED <<now, Session>>

ConfirmPayment(b, f) ==
    /\ b \in ActiveBills(db)
    /\ Use("bills")
    /\ Reached(4)
    /\ confirm_bar_shown(db, pending, selected["bills_month"], "save_bill_payment")
    /\ pending' = confirm_bar_clicked(pending, selected["bills_month"], "save_bill_payment")
    /\ proposed' = Sync(proposed, pending')
    /\ db' = Rerun(WritePayment(db, selected["bills_month"], b, f))
    /\ last' = Last("confirm_bill_payment", selected["bills_month"],
                    PaymentReq(selected["bills_month"], b, f), "written")
    /\ UNCHANGED <<now, Session>>

CancelPayment ==
    /\ ActiveBills(db) # {}
    /\ Use("bills")
    /\ Reached(4)
    /\ confirm_bar_shown(db, pending, selected["bills_month"], "save_bill_payment")
    /\ pending' = confirm_bar_clicked(pending, selected["bills_month"], "save_bill_payment")
    /\ proposed' = Sync(proposed, pending')
    /\ db' = Rerun(db)
    /\ last' = Last("cancel_bill_payment", selected["bills_month"], <<>>, "ok")
    /\ UNCHANGED <<now, Session>>

\* ---- Accounts + Snapshots ----
SnapshotReq(m, f, a) ==
    [account_id |-> a, month |-> Strip(m), balance |-> f.balance, payment |-> f.payment]

\* do_snap_write
WriteSnapshot(d, m, f, a) == upsert_snapshot(d, a, m, f.balance, f.payment)

SnapshotFits(d, m, a) ==
    \/ GatedRows(d) < MaxRows
    \/ \E r \in d.snapshots : r.month = m /\ r.account_id = a

SaveSnapshot(f, a) ==
    LET m == selected["snap_month"]
        p0 == confirm_bar_idle(db, pending, m, "save_snapshot")
    IN  /\ a \in ActiveAccounts(db)
        /\ Use("accounts")
        /\ Reached(5)
        /\ \/ /\ is_month_closed(db, m)
              /\ pending' = arm_two_step_if_closed(db, p0, m, "save_snapshot")
              /\ proposed' = Propose(proposed, PKey("save_snapshot", m), SnapshotReq(m, f, a))
              /\ db' = Rerun(db)
              /\ last' = Last("save_snapshot", m, SnapshotReq(m, f, a), "armed")
           \/ /\ ~ is_month_closed(db, m)
              /\ SnapshotFits(db, m, a)
              /\ pending' = p0
              /\ proposed' = Sync(proposed, p0)
              /\ db' = Rerun(WriteSnapshot(db, m, f, a))
              /\ last' = Last("save_snapshot", m, SnapshotReq(m, f, a), "written")
        /\ UNCHANGED <<now, Session>>

ConfirmSnapshot(f, a) ==
    LET m == selected["snap_month"]
    IN  /\ a \in ActiveAccounts(db)
        /\ Use("accounts")
        /\ Reached(5)
        /\ confirm_bar_shown(db, pending, m, "save_snapshot")
        /\ SnapshotFits(db, m, a)
        /\ pending' = confirm_bar_clicked(pending, m, "save_snapshot")
        /\ proposed' = Sync(proposed, pending')
        /\ db' = Rerun(WriteSnapshot(db, m, f, a))
        /\ last' = Last("confirm_snapshot", m, SnapshotReq(m, f, a), "written")
        /\ UNCHANGED <<now, Session>>

CancelSnapshot ==
    LET m == selected["snap_month"]
    IN  /\ ActiveAccounts(db) # {}
        /\ Use("accounts")
        /\ Reached(5)
        /\ confirm_bar_shown(db, pending, m, "save_snapshot")
        /\ pending' = confirm_bar_clicked(pending, m, "save_snapshot")
        /\ proposed' = Sync(proposed, pending')
        /\ db' = Rerun(db)
        /\ last' = Last("cancel_snapshot", m, <<>>, "ok")
        /\ UNCHANGED <<now, Session>>

----------------------------------------------------------------------------
(* Transactions tab *)

\* the list holds the month of the filter, or every month with "Show all months"
DeleteTransaction(txn_id) ==
    /\ Use("expense")
    /\ Reached(2)
    /\ txn_id \in get_transactions(db, Null)
    /\ db' = Rerun(soft_delete_transaction(db, txn_id, now))
    /\ last' = Last("delete_transaction", month_from_date(db.txns[txn_id].txn_date), txn_id, "ok")
    /\ UNCHANGED <<now, pending, proposed, Session>>

----------------------------------------------------------------------------
(* Data Tools: CSV import *)

UploadCsv(file) ==
    /\ Use("csv")
    /\ Reached(8)
    /\ file # uploaded
    /\ uploaded' = file
    /\ LET prep == csv_prepare(db, file)
       IN  /\ db' = Render(db, selected, file, <<>>)
           /\ last' = Last("upload_csv", <<>>, <<>>,
                           IF prep.stopped THEN "stopped"
                           ELSE IF /\ file.present /\ CsvRowsValid(file.rows)
                                   /\ prep.unresolved = {}
                           THEN "ok" ELSE "withheld")
    /\ UNCHANGED <<now, pending, proposed, selected>>

\* "Import CSV": no month of the batch is closed
ImportCsv ==
    /\ Use("csv")
    /\ Reached(8)
    /\ uploaded.present
    /\ GatedRows(db) < MaxRows
    /\ LET prep == csv_prepare(db, uploaded)
       IN  /\ CsvRowsValid(uploaded.rows) /\ prep.unresolved = {} /\ ~ prep.stopped
           /\ closed_months(db, prep.prepared) = {}
           /\ db' = Rerun(bulk_add_transactions(db, prep.prepared))
           /\ last' = Last("import_csv", JoinSorted(months_touched(prep.prepared)), prep.prepared, "written")
    /\ UNCHANGED <<now, pending, proposed, Session>>

\* "Import CSV (requires confirmation)"
RequestImportCsv ==
    /\ Use("csv")
    /\ Reached(8)
    /\ uploaded.present
    /\ LET prep == csv_prepare(db, uploaded)
           key == csv_pending_key(prep.prepared)
       IN  /\ CsvRowsValid(uploaded.rows) /\ prep.unresolved = {} /\ ~ prep.stopped
           /\ closed_months(db, prep.prepared) # {}
           /\ pending' = pending \cup {key}
           /\ proposed' = Propose(proposed, key, prep.prepared)
           /\ db' = Rerun(db)
           /\ last' = Last("import_csv", key.month, prep.prepared, "armed")
    /\ UNCHANGED <<now, Session>>

\* "Confirm Import"
ConfirmImportCsv ==
    /\ Use("csv")
    /\ Reached(8)
    /\ uploaded.present
    /\ GatedRows(db) < MaxRows
    /\ LET prep == csv_prepare(db, uploaded)
           key == csv_pending_key(prep.prepared)
       IN  /\ CsvRowsValid(uploaded.rows) /\ prep.unresolved = {} /\ ~ prep.stopped
           /\ closed_months(db, prep.prepared) # {}
           /\ key \in pending
           /\ pending' = pending \ {key}
           /\ proposed' = Sync(proposed, pending')
           /\ db' = Rerun(bulk_add_transactions(db, prep.prepared))
           /\ last' = Last("confirm_import_csv", key.month, prep.prepared, "written")
    /\ UNCHANGED <<now, Session>>

\* faulty variant: Cancel runs the import
CancelImportCsvImporting ==
    /\ Use("csv")
    /\ Reached(8)
    /\ uploaded.present
    /\ LET prep == csv_prepare(db, uploaded)
           key == csv_pending_key(prep.prepared)
       IN  /\ CsvRowsValid(uploaded.rows) /\ prep.unresolved = {} /\ ~ prep.stopped
           /\ closed_months(db, prep.prepared) # {}
           /\ key \in pending
           /\ pending' = pending \ {key}
           /\ proposed' = Sync(proposed, pending')
           /\ db' = Rerun(bulk_add_transactions(db, prep.prepared))
           /\ last' = Last("cancel_import_csv", key.month, <<>>, "ok")
    /\ UNCHANGED <<now, Session>>

CancelImportCsv ==
    /\ Use("csv")
    /\ Reached(8)
    /\ uploaded.present
    /\ LET prep == csv_prepare(db, uploaded)
           key == csv_pending_key(prep.prepared)
       IN  /\ CsvRowsValid(uploaded.rows) /\ prep.unresolved = {} /\ ~ prep.stopped
           /\ closed_months(db, prep.prepared) # {}
           /\ key \in pending
           /\ pending' = pending \ {key}
           /\ proposed' = Sync(proposed, pending')
           /\ db' = Rerun(db)
           /\ last' = Last("cancel_import_csv", key.month, <<>>, "ok")
    /\ UNCHANGED <<now, Session>>

----------------------------------------------------------------------------
(* The app *)

Next ==
    \/ \E name \in CategoryNames : AddCategory(name)
    \/ \E o \in DOMAIN db.owners, new \in OwnerNames : RenameOwner(o, new)
    \/ \E f \in BillForms : AddBill(f)
    \/ \E f \in AccountForms : AddAccount(f)
    \/ \E c \in DOMAIN db.categories, new_name \in {<<71>>, <<32, 102>>, <<32>>} :
          RenameCategory(c, new_name)
    \/ \E c \in DOMAIN db.categories : SetCategoryActive(c)
    \/ \E m \in UIMonths : SelectDashMonth(m)
    \/ \E m \in UIMonths : SelectBillsMonth(m)
    \/ \E n \in DOMAIN Selectors, m \in UIMonths : SelectMonth(n, m)
    \/ \E note \in CloseNotes : CloseMonth(note)
    \/ \E f \in ExpenseForms, c \in DOMAIN db.categories : SaveExpense(f, c)
    \/ \E f \in ExpenseForms, c \in DOMAIN db.categories : ConfirmExpense(f, c)
    \/ \E m \in UIMonths : CancelExpense(m)
    \/ \E f \in BudgetForms, c \in DOMAIN db.categories : SaveBudget(f, c)
    \/ \E f \in BudgetForms, c \in DOMAIN db.categories : ConfirmBudget(f, c)
    \/ CancelBudget
    \/ \E b \in DOMAIN db.bills, f \in PaymentForms : SavePayment(b, f)
    \/ \E b \in DOMAIN db.bills, f \in PaymentForms : ConfirmPayment(b, f)
    \/ CancelPayment
    \/ \E f \in SnapshotForms, a \in DOMAIN db.accounts : SaveSnapshot(f, a)
    \/ \E f \in SnapshotForms, a \in DOMAIN db.accounts : ConfirmSnapshot(f, a)
    \/ CancelSnapshot
    \/ \E t \in DOMAIN db.txns : DeleteTransaction(t)
    \/ \E file \in CsvFiles \cup {NoFile} : UploadCsv(file)
    \/ ImportCsv
    \/ RequestImportCsv
    \/ ConfirmImportCsv
    \/ CancelImportCsv

Spec == Init /\ [][Next]_vars

\* a finished run leaves nothing for the next run's passive part to write
ScriptSettled == Rerun(db) = db

----------------------------------------------------------------------------
(* The service layer called directly, with any arguments *)

PadM1 == <<32>> \o M1 \o <<32>>
NoDash == <<50, 48, 50, 54, 48, 49>>
MonthArgs == {M2, PadM1, NoDash}
NoteArgs == {Null, <<111, 107, 32>>}
NameArgs == {<<70>>, <<32, 102>>, <<32>>}
AmountArgs == {0, 10, 20}
Ui == <<pending, selected, uploaded, proposed>>

CallInitDb ==
    /\ db' = seed_owners(db, SeedOwners)
    /\ last' = Last("init_db()", <<>>, <<>>, "ok")
    /\ UNCHANGED <<now, area, Ui>>

CallRenameOwner(o, new_name) ==
    /\ Use("owners")
    /\ db' = rename_owner(db, o, new_name)
    /\ last' = Last("rename_owner()", <<>>, [owner_id |-> o, new_name |-> new_name],
                    IF Strip(new_name) = <<>> THEN "raised" ELSE "written")
    /\ UNCHANGED <<now, Ui>>

CallCloseMonth(month, note) ==
    /\ db' = close_month(db, month, note, now)
    /\ now' = IF db' # db THEN now + 1 ELSE now
    /\ last' = Last("close_month()", month, note,
                    IF close_month_raises(month) THEN "raised"
                    ELSE IF is_month_closed(db, month) THEN "noop" ELSE "written")
    /\ UNCHANGED <<area, Ui>>

CallAddCategory(name) ==
    /\ db' = add_category(db, name)
    /\ last' = Last("add_category()", <<>>, name,
                    IF add_category_raises(name) THEN "raised"
                    ELSE IF db' = db THEN "noop" ELSE "written")
    /\ UNCHANGED <<now, area, Ui>>

CallGetOrCreateCategoryId(name) ==
    /\ Use("categories")
    /\ db' = get_or_create_category_id(db, name)
    /\ last' = Last("get_or_create_category_id()", <<>>,
                    [name |-> name, id |-> category_id_for(db, name)],
                    IF Strip(name) = <<>> THEN "raised"
                    ELSE IF CategoriesMatching(db, name) # {} THEN "found" ELSE "created")
    /\ UNCHANGED <<now, Ui>>

CallRenameCategory(c, new_name) ==
    /\ Use("categories")
    /\ db' = rename_category(db, c, new_name)
    /\ last' = Last("rename_category()", <<>>, [category_id |-> c, new_name |-> new_name],
                    IF Strip(new_name) = <<>> THEN "raised"
                    ELSE IF c \notin DOMAIN db.categories THEN "noop"
                    ELSE IF db' = db /\ db.categories[c].name # Strip(new_name) THEN "raised"
                    ELSE "written")
    /\ UNCHANGED <<now, Ui>>

CallSetCategoryActive(c, active) ==
    /\ Use("categories")
    /\ db' = set_category_active(db, c, active)
    /\ last' = Last("set_category_active()", <<>>, [category_id |-> c, active |-> active],
                    IF c \in DOMAIN db.categories THEN "written" ELSE "noop")
    /\ UNCHANGED <<now, Ui>>

CallAddBill(f, due_day) ==
    /\ Use("bills")
    /\ ~ HasBill(db, f.name)
    /\ db' = add_bill(db, f.owner_id, f.name, due_day, <<f.default_amount>>)
    /\ last' = Last("add_bill()", <<>>, <<>>,
                    IF add_bill_raises(f.name, due_day) THEN "raised" ELSE "written")
    /\ UNCHANGED <<now, Ui>>

CallSetBillActive(b, active) ==
    /\ Use("bills")
    /\ db' = set_bill_active(db, b, active)
    /\ last' = Last("set_bill_active()", <<>>, <<>>, "written")
    /\ UNCHANGED <<now, Ui>>

CallBillsDueView(month) ==
    /\ Use("bills")
    /\ db' = bills_due_view(db, month)
    /\ last' = Last("bills_due_view()", month, <<>>, "ok")
    /\ UNCHANGED <<now, Ui>>

CallEnsureBillPaymentRows(month) ==
    /\ Use("bills")
    /\ db' = ensure_bill_payment_rows(db, month)
    /\ last' = Last("ensure_bill_payment_rows()", month, <<>>, "ok")
    /\ UNCHANGED <<now, Ui>>

\* set_bill_paid stores the arguments as they are given
CallSetBillPaid(month, b, f) ==
    /\ Use("bills")
    /\ db' = set_bill_paid(db, month, b, f.paid, <<f.paid_amount>>, f.paid_date, f.note)
    /\ last' = Last("set_bill_paid()", month,
                    [bill_id |-> b, month |-> Strip(month), paid |-> f.paid,
                     paid_amount |-> <<f.paid_amount>>, paid_date |-> f.paid_date,
                     note |-> NoteValue(f.note)], "written")
    /\ UNCHANGED <<now, Ui>>

CallAddAccount(f, acc_type) ==
    /\ Use("accounts")
    /\ ~ HasAccount(db, f.name)
    /\ db' = add_account(db, f.owner_id, f.name, acc_type, <<f.credit_limit>>,
                       <<f.start_balance>>)
    /\ last' = Last("add_account()", <<>>, <<>>,
                    IF add_account_raises(f.name, acc_type) THEN "raised" ELSE "written")
    /\ UNCHANGED <<now, Ui>>

CallUpsertSnapshot(a, month, balance, payment) ==
    /\ Use("accounts")
    /\ SnapshotFits(db, Strip(month), a)
    /\ db' = upsert_snapshot(db, a, month, balance, payment)
    /\ last' = Last("upsert_snapshot()", month,
                    [account_id |-> a, balance |-> balance, payment |-> payment],
                    IF upsert_snapshot_raises(month) THEN "raised"
                    ELSE IF \E r \in db.snapshots : r.account_id = a /\ r.month = Strip(month)
                         THEN "updated" ELSE "inserted")
    /\ UNCHANGED <<now, Ui>>

CallUpsertBudget(month, owner_id, c, planned) ==
    /\ Use("budget")
    /\ BudgetFits(db, Strip(month), [owner_id |-> owner_id], c)
    /\ db' = upsert_budget(db, month, owner_id, c, planned)
    /\ last' = Last("upsert_budget()", month,
                    [owner_id |-> owner_id, category_id |-> c, planned_amount |-> planned],
                    IF upsert_budget_raises(month) THEN "raised"
                    ELSE IF \E r \in db.budgets : /\ r.month = Strip(month)
                                                   /\ r.owner_id = owner_id
                                                   /\ r.category_id = c
                         THEN "updated" ELSE "inserted")
    /\ UNCHANGED <<now, Ui>>

CallAddTransaction(txn_date, owner_id, c, amount) ==
    /\ Use("expense")
    /\ GatedRows(db) < MaxRows
    /\ db' = add_transaction(db, txn_date, owner_id, c, amount)
    /\ last' = Last("add_transaction()", month_from_date(txn_date),
                    TxnRow(txn_date, owner_id, c, amount),
                    IF add_transaction_raises(amount) THEN "raised" ELSE "written")
    /\ UNCHANGED <<now, Ui>>

\* bulk_add_transactions inserts the rows as they are given, with no check of its own
CallBulkAddTransactions(rows) ==
    /\ Use("expense")
    /\ GatedRows(db) < MaxRows
    /\ db' = bulk_add_transactions(db, rows)
    /\ last' = Last("bulk_add_transactions()", JoinSorted(months_touched(rows)), rows,
                    "written")
    /\ UNCHANGED <<now, Ui>>

CallSoftDelete(txn_id) ==
    /\ Use("expense")
    /\ db' = soft_delete_transaction(db, txn_id, now)
    /\ last' = Last("soft_delete_transaction()", <<>>, txn_id, "written")
    /\ UNCHANGED <<now, Ui>>

SvcNext ==
    \/ CallInitDb
    \/ \E o \in 1..4, new_name \in OwnerNames : CallRenameOwner(o, new_name)
    \/ \E month \in MonthArgs, note \in NoteArgs : CallCloseMonth(month, note)
    \/ \E name \in NameArgs : CallAddCategory(name)
    \/ \E name \in NameArgs \cup {<<71>>} : CallGetOrCreateCategoryId(name)
    \/ \E c \in 1..2, new_name \in {<<102>>, <<32, 71>>, <<32>>} :
          CallRenameCategory(c, new_name)
    \/ \E f \in BillForms, due_day \in {NullNum, <<0>>, <<1>>, <<32>>} : CallAddBill(f, due_day)
    \/ \E b \in DOMAIN db.bills, active \in BOOLEAN : CallSetBillActive(b, active)
    \/ \E month \in MonthArgs : CallBillsDueView(month)
    \/ \E month \in {M2, PadM1} : CallEnsureBillPaymentRows(month)
    \/ \E month \in {M2, PadM1}, b \in DOMAIN db.bills, f \in PaymentForms :
          CallSetBillPaid(month, b, f)
    \/ \E f \in AccountForms, acc_type \in AccountTypes \cup {"CASH"} : CallAddAccount(f, acc_type)
    \/ \E a \in DOMAIN db.accounts, month \in MonthArgs, f \in SnapshotForms :
          CallUpsertSnapshot(a, month, f.balance, f.payment)
    \/ \E month \in MonthArgs, f \in BudgetForms, c \in DOMAIN db.categories,
          planned \in AmountArgs : CallUpsertBudget(month, f.owner_id, c, planned)
    \/ \E dt \in {D1, D2}, c \in DOMAIN db.categories, amount \in AmountArgs :
          CallAddTransaction(dt, 1, c, amount)
    \/ \E c \in 1..2, active \in BOOLEAN : CallSetCategoryActive(c, active)
    \/ \E c \in DOMAIN db.categories :
          \E rows \in {<<[txn_date |-> D1, owner_id |-> 1, category_id |-> c, amount |-> 10]>>,
                       <<[txn_date |-> D1, owner_id |-> 1, category_id |-> c, amount |-> 0],
                         [txn_date |-> D2, owner_id |-> 2, category_id |-> c, amount |-> 20]>>} :
             CallBulkAddTransactions(rows)
    \/ \E t \in DOMAIN db.txns : CallSoftDelete(t)

SpecSvc == Init /\ [][SvcNext]_vars

----------------------------------------------------------------------------
(* The reports and the payment writes, on stores that the service calls have filled *)

\* owner 3 renamed, categories G (id 1) and F (id 2), G possibly switched off, some
\* budgets, up to MaxTxns transactions
ReportStores ==
    LET BudgetInputs ==
            {[month |-> PadM1, owner_id |-> 1, category_id |-> 2, planned_amount |-> 10],
             [month |-> M2, owner_id |-> 1, category_id |-> 2, planned_amount |-> 20],
             [month |-> M1, owner_id |-> 3, category_id |-> 1, planned_amount |-> 40]}
        TxnInputs ==
            {[txn_date |-> D1, owner_id |-> 1, category_id |-> 2, amount |-> 1],
             [txn_date |-> D1, owner_id |-> 1, category_id |-> 2, amount |-> 2],
             [txn_date |-> D2, owner_id |-> 1, category_id |-> 2, amount |-> 4],
             [txn_date |-> D1, owner_id |-> 3, category_id |-> 1, amount |-> 8]}
        RECURSIVE Budgeted(_, _)
        Budgeted(d, B) ==
            IF B = {} THEN d
            ELSE LET r == CHOOSE r \in B : TRUE
                 IN  Budgeted(upsert_budget(d, r.month, r.owner_id, r.category_id,
                                            r.planned_amount), B \ {r})
        RECURSIVE Spent(_, _)
        Spent(d, ts) ==
            IF ts = <<>> THEN d
            ELSE Spent(add_transaction(d, Head(ts).txn_date, Head(ts).owner_id,
                                       Head(ts).category_id, Head(ts).amount), Tail(ts))
        BudgetSets == {{}, {r \in BudgetInputs : r.owner_id = 1}, BudgetInputs}
        base == add_category(add_category(rename_owner(init_db, 3, <<65, 110, 110>>),
                                          <<71>>), <<70>>)
    IN  {Spent(Budgeted(set_category_active(base, 1, on), B), ts) :
            on \in BOOLEAN, B \in BudgetSets,
            ts \in UNION {[1..n -> TxnInputs] : n \in 0..MaxTxns}}

\* a credit card of owner 1, a loan of owner 2 with or without limit and start
\* balance, and snapshots of 2025-11, 2026-01 and 2026-02
DebtStores ==
    LET SnapInputs ==
            {[account_id |-> 1, month |-> <<50, 48, 50, 53, 45, 49, 49>>,
              balance |-> 600, payment |-> 50],
             [account_id |-> 1, month |-> PadM1, balance |-> 400, payment |-> 200],
             [account_id |-> 1, month |-> M2, balance |-> 0, payment |-> 400],
             [account_id |-> 2, month |-> M1, balance |-> 100, payment |-> 10]}
        RECURSIVE Snapped(_, _)
        Snapped(d, S) ==
            IF S = {} THEN d
            ELSE LET r == CHOOSE r \in S : TRUE
                 IN  Snapped(upsert_snapshot(d, r.account_id, r.month, r.balance, r.payment),
                             S \ {r})
        card == add_account(init_db, 1, <<86>>, "CREDIT_CARD", <<500>>, <<1000>>)
    IN  {LET two == Snapped(add_account(card, 2, <<76>>, "LOAN", f[1], f[2]), S)
         IN  IF h = <<>> THEN two
             ELSE upsert_snapshot(add_account(two, 3, <<72>>, "LOAN", <<h[1]>>, <<h[1]>>),
                                  3, M1, h[2], 0) :
            f \in {<<NullNum, NullNum>>, <<<<0>>, <<0>>>>, <<<<300>>, <<700>>>>},
            S \in SUBSET SnapInputs,
            h \in {<<>>, <<400, 1>>, <<400, 403>>, <<2000, 1>>, <<2000, 403>>}}

\* two bills, the second possibly switched off before or after the months in view
\* were materialized, 2026-01 possibly closed, next to a budget, a transaction and a
\* snapshot
BillStores ==
    LET RECURSIVE Viewed(_, _)
        Viewed(d, V) ==
            IF V = {} THEN d
            ELSE LET m == CHOOSE m \in V : TRUE
                 IN  Viewed(bills_due_view(d, m), V \ {m})
        filled == upsert_snapshot(
                      add_account(
                          add_transaction(
                              upsert_budget(add_category(init_db, <<70>>), M1, 1, 1, 10),
                              D1, 1, 1, 5),
                          1, <<86>>, "CREDIT_CARD", <<500>>, <<1000>>),
                      1, M1, 400, 200)
        base == add_bill(add_bill(filled, 1, <<82>>, <<1>>, <<5>>), 2, <<32, 80>>, NullNum,
                        NullNum)
    IN  {LET d == set_bill_active(Viewed(set_bill_active(base, 2, on), V), 2, after)
         IN  IF closed THEN close_month(d, M1, Null, 1) ELSE d :
            on \in BOOLEAN, after \in BOOLEAN, closed \in BOOLEAN, V \in SUBSET {M1, M2}}

InitQ ==
    /\ area \in {"expense", "accounts", "bills"}
    /\ db \in CASE area = "expense" -> ReportStores
               [] area = "accounts" -> DebtStores
               [] OTHER -> BillStores
    /\ now = 1
    /\ pending = {}
    /\ selected = [key \in {Selectors[i] : i \in DOMAIN Selectors} |-> M1]
    /\ uploaded = NoFile
    /\ proposed = {}
    /\ last = Last("start", <<>>, <<>>, "ok")

QueryPlannedVsActual(month) ==
    /\ Use("expense")
    /\ last' = Last("planned_vs_actual()", month, planned_vs_actual(db, month),
                    IF MonthShapeOk(Strip(month)) THEN "ok" ELSE "raised")
    /\ UNCHANGED <<db, now, Ui>>

\* the Debt Progress tab: the rows of the month with the three computed columns
DebtProgress(month) ==
    /\ Use("accounts")
    /\ last' = Last("debt_progress", Strip(month),
                    LET rows == latest_snapshot_by_account(db, Strip(month))
                    IN  [i \in DOMAIN rows |->
                            [row |-> rows[i],
                             utilization |-> pct_used(rows[i]),
                             payoff |-> payoff_pct(rows[i]),
                             balance_delta |-> delta_balance(rows[i])]],
                    "ok")
    /\ UNCHANGED <<db, now, Ui>>

QNext ==
    \/ \E month \in {M2, PadM1, NoDash, <<50, 48, 50, 54, 45, 49, 120>>} :
          QueryPlannedVsActual(month)
    \/ \E t \in DOMAIN db.txns : CallSoftDelete(t)
    \/ \E month \in {M1, M2, <<50, 48, 50, 53, 45, 49, 49>>} : DebtProgress(month)
    \/ \E month \in {M2, PadM1}, b \in DOMAIN db.bills, f \in PaymentForms :
          CallSetBillPaid(month, b, f)

SpecQ == InitQ /\ [][QNext]_vars

----------------------------------------------------------------------------
(* Properties *)

SaveOps == {"save_expense", "save_budget", "save_bill_payment", "save_snapshot", "import_csv"}
ConfirmOps ==
    {"confirm_expense", "confirm_budget", "confirm_bill_payment", "confirm_snapshot",
     "confirm_import_csv"}
CancelOps ==
    {"cancel_expense", "cancel_budget", "cancel_bill_payment", "cancel_snapshot",
     "cancel_import_csv"}
CsvOps == {"import_csv", "confirm_import_csv", "cancel_import_csv"}

\* the pending flag a click l belongs to
GateKey(l) ==
    CASE l.op \in {"save_expense", "confirm_expense", "cancel_expense"} ->
            PKey("add_expense", l.month)
      [] l.op \in {"save_budget", "confirm_budget", "cancel_budget"} ->
            PKey("save_budget", l.month)
      [] l.op \in {"save_bill_payment", "confirm_bill_payment", "cancel_bill_payment"} ->
            PKey("save_bill_payment", l.month)
      [] l.op \in {"save_snapshot", "confirm_snapshot", "cancel_snapshot"} ->
            PKey("save_snapshot", l.month)
      [] l.op \in CsvOps -> PKey("csv_import", l.month)

\* the write that click l asks for targets a closed month of store d
TargetClosed(d, l) ==
    IF l.op \in CsvOps
    THEN \E i \in DOMAIN l.req : \E r \in d.closings : r.month = SubSeq(l.req[i].txn_date, 1, 7)
    ELSE \E r \in d.closings : r.month = l.month

\* store d2 is store d with the write of click l applied exactly once, nothing else changed
AppliedOnce(d, d2, l) ==
    CASE l.op \in {"save_expense", "confirm_expense"} ->
            d2 = [d EXCEPT !.txns = Append(@, l.req)]
      [] l.op \in {"save_budget", "confirm_budget"} ->
            d2 = [d EXCEPT !.budgets =
                    {r \in @ : <<r.month, r.owner_id, r.category_id>> #
                               <<l.req.month, l.req.owner_id, l.req.category_id>>}
                        \cup {l.req}]
      [] l.op \in {"save_bill_payment", "confirm_bill_payment"} ->
            d2 = [d EXCEPT !.bill_payments =
                    {r \in @ : <<r.bill_id, r.month>> # <<l.req.bill_id, l.req.month>>}
                        \cup {l.req}]
      [] l.op \in {"save_snapshot", "confirm_snapshot"} ->
            d2 = [d EXCEPT !.snapshots =
                    {r \in @ : <<r.account_id, r.month>> # <<l.req.account_id, l.req.month>>}
                        \cup {l.req}]
      [] l.op \in {"import_csv", "confirm_import_csv"} ->
            /\ Len(d2.txns) = Len(d.txns) + Len(l.req)
            /\ SubSeq(d2.txns, 1, Len(d.txns)) = d.txns
            /\ \A i \in DOMAIN l.req :
                  LET row == d2.txns[Len(d.txns) + i]
                  IN  /\ row.txn_date = l.req[i].txn_date
                      /\ row.owner_id = l.req[i].owner_id
                      /\ row.category_id = l.req[i].category_id
                      /\ row.amount = l.req[i].amount
                      /\ row.deleted_at = NullNum
            /\ [d2 EXCEPT !.txns = <<>>] = [d EXCEPT !.txns = <<>>]

\* C1: for a month of valid shape, is_month_closed(m) is true right after
\* close_month(m, note); a call on a month that is already closed changes nothing,
\* so there is exactly one month_closings row for m and it keeps the closed_at and
\* note of the first call.
C1_CloseMonthIdempotent ==
    [][(last'.op = "close_month()" /\ ~ close_month_raises(last'.month)) =>
          /\ is_month_closed(db', last'.month)
          /\ Cardinality({r \in db'.closings : r.month = Strip(last'.month)}) = 1
          /\ is_month_closed(db, last'.month) => db' = db]_vars

\* a second close_month on a closed month, with another note, has returned
C1_Witness ==
    /\ last.op = "close_month()"
    /\ last.res = "noop"
    /\ \E r \in db.closings :
          r.month = Strip(last.month) /\ r.note # NoteValue(last.req)

\* C2: once a month is closed it is closed in every later state: no click of the app
\* removes or alters a month_closings row.
C2_ClosedStaysClosed == [][db.closings \subseteq db'.closings]_vars

\* both months are closed and a confirmed payment has gone into one of them
C2_Witness ==
    /\ is_month_closed(db, M1)
    /\ is_month_closed(db, M2)
    /\ last.op = "confirm_bill_payment"
    /\ last.month = M1

\* C3: for each of the five gated writes (add expense, save budget, save bill payment,
\* save snapshot, CSV import) the first request writes exactly when the target month
\* is open; when it is closed the request leaves the store unchanged and only raises
\* the pending flag of that (action, month).
C3_FirstRequestLandsIffOpen ==
    [][last'.op \in SaveOps =>
          IF TargetClosed(db, last')
          THEN db' = db /\ pending' = pending \cup {GateKey(last')}
          ELSE AppliedOnce(db, db', last') /\ GateKey(last') \notin pending']_vars

\* a snapshot save on a closed month has raised its flag and stored nothing
C3_Witness ==
    /\ last.op = "save_snapshot"
    /\ last.res = "armed"
    /\ is_month_closed(db, last.month)
    /\ PKey("save_snapshot", last.month) \in pending
    /\ db.snapshots = {}

\* C4: a Confirm click needs the raised flag, applies the pending write exactly once
\* and clears the flag; flags are raised by requests only, and a request on a closed
\* month writes nothing, so a further write to that month needs a new request and a
\* new Confirm.
C4_ConfirmationSingleUse ==
    [][/\ last'.op \in ConfirmOps =>
             /\ TargetClosed(db, last')
             /\ GateKey(last') \in pending
             /\ pending' = pending \ {GateKey(last')}
             /\ AppliedOnce(db, db', last')
       /\ pending' \ pending # {} => last'.op \in SaveOps /\ last'.res = "armed"
       /\ (last'.op \in SaveOps /\ TargetClosed(db, last')) => db' = db]_vars

\* a budget of a closed month was confirmed and its flag is down again
C4_Witness ==
    /\ last.op = "confirm_budget"
    /\ is_month_closed(db, last.month)
    /\ PKey("save_budget", last.month) \notin pending
    /\ last.req \in db.budgets

\* C5: the write executed on Confirm is the write that was proposed: same action,
\* same month, same payload as the request that raised the flag.
C5_ConfirmedWriteIsProposed ==
    [][last'.op \in ConfirmOps =>
          \E x \in proposed :
              /\ x.action = GateKey(last').action
              /\ x.month = GateKey(last').month
              /\ x.req = last'.req]_vars

\* C6: a proposal on a closed month leaves every table as it was, and so does the
\* Cancel that follows: the flag is cleared, nothing is written, and the run after
\* the click writes nothing either.
C6_CancelHasNoEffect ==
    [][/\ last'.op \in CancelOps =>
             /\ GateKey(last') \in pending
             /\ pending' = pending \ {GateKey(last')}
             /\ db' = db
             /\ Render(db', selected', uploaded', <<>>) = db'
       /\ (last'.op \in SaveOps /\ last'.res = "armed") => db' = db]_vars

\* an expense proposed for a closed month was cancelled: no row, no flag
C6_Witness ==
    /\ last.op = "cancel_expense"
    /\ is_month_closed(db, last.month)
    /\ PKey("add_expense", last.month) \notin pending
    /\ db.txns = <<>>

\* C7: a transaction dated in a closed month is not soft-deleted (deleted_at stays
\* null) unless the delete went through the two-step confirmation.
C7_SoftDeleteGated ==
    [][\A i \in DOMAIN db.txns :
          LET m == month_from_date(db.txns[i].txn_date)
          IN  (is_month_closed(db, m) /\ db'.txns[i].deleted_at # db.txns[i].deleted_at)
                  => PKey("delete_transaction", m) \in pending]_vars

\* C8: a CSV import that touches a closed month inserts no transaction until Confirm
\* Import is clicked; the one confirmation inserts every prepared row of the batch
\* exactly once, in order, and clears the flag of the batch.
C8_CsvImportOneConfirmation ==
    [][/\ (last'.op \in {"upload_csv", "import_csv", "cancel_import_csv"}
              /\ (last'.op = "import_csv" => TargetClosed(db, last')))
          => db'.txns = db.txns
       /\ last'.op = "confirm_import_csv" =>
             /\ csv_pending_key(last'.req) \in pending
             /\ csv_pending_key(last'.req) \notin pending'
             /\ db'.txns = db.txns \o
                   [i \in 1..Len(last'.req) |->
                       [txn_date |-> last'.req[i].txn_date,
                        owner_id |-> last'.req[i].owner_id,
                        category_id |-> last'.req[i].category_id,
                        amount |-> last'.req[i].amount,
                        deleted_at |-> NullNum]]]_vars

\* a batch of two rows, one in a closed and one in an open month, was confirmed
C8_Witness ==
    /\ last.op = "confirm_import_csv"
    /\ Len(last.req) = 2
    /\ Len(db.txns) = 2
    /\ \E i \in DOMAIN db.txns : ~ is_month_closed(db, month_from_date(db.txns[i].txn_date))
    /\ pending = {}

\* C9: an upload in which some row's owner cannot be resolved leaves the store
\* unchanged: no transaction is inserted and no category is created.
C9_UnresolvedOwnerLeavesStore ==
    [][(/\ last'.op = "upload_csv"
        /\ uploaded'.present
        /\ \E i \in DOMAIN uploaded'.rows :
              owner_id_from_label_or_key(db, uploaded'.rows[i].owner) = 0)
          => db' = db]_vars

\* C10: after any sequence of calls there is at most one budgets row per (month,
\* owner, category) and one account_snapshots row per (account, month); a call sets
\* the row of its key to its values and no other step touches a row.
C10_TrueUpserts ==
    [][/\ \A r1, r2 \in db'.budgets :
             (r1.month = r2.month /\ r1.owner_id = r2.owner_id
                 /\ r1.category_id = r2.category_id) => r1 = r2
       /\ \A r1, r2 \in db'.snapshots :
             (r1.account_id = r2.account_id /\ r1.month = r2.month) => r1 = r2
       /\ IF last'.op = "upsert_budget()" /\ last'.res # "raised"
          THEN LET row == [month |-> Strip(last'.month), owner_id |-> last'.req.owner_id,
                           category_id |-> last'.req.category_id,
                           planned_amount |-> last'.req.planned_amount]
               IN  /\ row \in db'.budgets
                   /\ \A r \in db.budgets :
                         <<r.month, r.owner_id, r.category_id>> #
                             <<row.month, row.owner_id, row.category_id>> => r \in db'.budgets
                   /\ db'.budgets \subseteq db.budgets \cup {row}
          ELSE db'.budgets = db.budgets
       /\ IF last'.op = "upsert_snapshot()" /\ last'.res # "raised"
          THEN LET row == [account_id |-> last'.req.account_id, month |-> Strip(last'.month),
                           balance |-> last'.req.balance, payment |-> last'.req.payment]
               IN  /\ row \in db'.snapshots
                   /\ \A r \in db.snapshots :
                         <<r.account_id, r.month>> # <<row.account_id, row.month>>
                             => r \in db'.snapshots
                   /\ db'.snapshots \subseteq db.snapshots \cup {row}
          ELSE db'.snapshots = db.snapshots]_vars

\* a budget row was overwritten by a later call with another amount
C10_Witness ==
    /\ last.op = "upsert_budget()"
    /\ last.res = "updated"
    /\ Cardinality(db.budgets) = 1
    /\ \A r \in db.budgets : r.planned_amount = last.req.planned_amount /\ r.planned_amount = 0

\* C11: after bills_due_view(m) every active bill has exactly one bill_payments row
\* for the month m; a call that finds the rows in place creates none, and neither
\* does a further call.
C11_OneRowPerActiveBill ==
    [][last'.op = "bills_due_view()" =>
          LET m == Strip(last'.month)
              rows(d, i) == {r \in d.bill_payments : r.bill_id = i /\ r.month = m}
          IN  /\ \A i \in ActiveBills(db') : Cardinality(rows(db', i)) = 1
              /\ (\A i \in ActiveBills(db) : rows(db, i) # {}) => db' = db
              /\ Cardinality(bills_due_view(db', last'.month).bill_payments)
                     = Cardinality(db'.bill_payments)]_vars

\* the view was opened on a month whose bill was already recorded as paid
C11_Witness ==
    /\ last.op = "bills_due_view()"
    /\ ActiveBills(db) # {}
    /\ \A i \in ActiveBills(db) :
          \E r \in db.bill_payments : r.bill_id = i /\ r.month = Strip(last.month) /\ r.paid

\* C12: materialising the rows of a month never overwrites recorded payment state:
\* bills_due_view(m), close_month(m) and ensure_bill_payment_rows(m) leave every
\* bill_payments row that exists, with its paid, paid_amount, paid_date and note,
\* as it is.
C12_MaterializationKeepsPayments ==
    [][last'.op \in {"bills_due_view()", "close_month()", "ensure_bill_payment_rows()"}
          => db.bill_payments \subseteq db'.bill_payments]_vars

\* a month with a bill recorded as paid was closed
C12_Witness ==
    /\ last.op = "close_month()"
    /\ last.res = "written"
    /\ ActiveBills(db) # {}
    /\ \E r \in db.bill_payments :
          /\ r.month = Strip(last.month) /\ r.bill_id \in ActiveBills(db)
          /\ r.paid /\ r.paid_amount = <<5>> /\ r.note = <<120>>

\* C13: planned_vs_actual(m) returns exactly one row for every (owner, active
\* category) pair and no other row; a pair with no budget and no transactions in m
\* has planned = 0, actual = 0, variance = 0; rows are ordered by owner sort_order,
\* then category name.
C13_FullCrossProduct ==
    (last.op = "planned_vs_actual()" /\ last.res = "ok") =>
        LET res == last.req
            m == Strip(last.month)
            rows(o, c) == {i \in DOMAIN res :
                              /\ res[i].owner = db.owners[o].display_name
                              /\ res[i].category = db.categories[c].name}
        IN  /\ Len(res) = Len(db.owners) * Cardinality(ActiveCategories(db))
            /\ \A o \in DOMAIN db.owners, c \in ActiveCategories(db) :
                  /\ Cardinality(rows(o, c)) = 1
                  /\ (/\ ~ \E r \in db.budgets :
                            r.month = m /\ r.owner_id = o /\ r.category_id = c
                      /\ ~ \E t \in DOMAIN db.txns :
                            /\ db.txns[t].owner_id = o /\ db.txns[t].category_id = c
                            /\ SubSeq(db.txns[t].txn_date, 1, 7) = m)
                      => \A i \in rows(o, c) :
                            res[i].planned = 0 /\ res[i].actual = 0 /\ res[i].variance = 0
            /\ \A i, j \in DOMAIN res :
                  i < j => \/ db.owners[CHOOSE o \in DOMAIN db.owners :
                                  db.owners[o].display_name = res[i].owner].sort_order
                              < db.owners[CHOOSE o \in DOMAIN db.owners :
                                    db.owners[o].display_name = res[j].owner].sort_order
                           \/ /\ res[i].owner = res[j].owner
                              /\ StrLess(res[i].category, res[j].category)

\* the report of a month in which one pair has a budget, another a transaction and
\* the four others nothing, over two active categories created in the order G, F
C13_Witness ==
    /\ last.op = "planned_vs_actual()"
    /\ last.res = "ok"
    /\ Len(last.req) = 6
    /\ \E i, j \in DOMAIN last.req : last.req[i].planned # 0 /\ last.req[j].actual # 0 /\ i # j
    /\ Cardinality({i \in DOMAIN last.req : last.req[i].planned = 0
                       /\ last.req[i].actual = 0 /\ last.req[i].variance = 0}) = 4
    /\ last.req[1].owner = <<83, 104, 97, 114, 101, 100>>
    /\ last.req[1].category = <<70>>
    /\ last.req[5].owner = <<65, 110, 110>>

\* C14: in every row of planned_vs_actual(m), planned is the planned_amount of the
\* budget row for (m, owner, category) or 0 if there is none, actual is the sum of the
\* amounts of the non-deleted transactions of that owner and category dated in month
\* m (0 if none), and variance is planned minus actual; rows of other months, owners
\* or categories add nothing.
C14_RowValues ==
    (last.op = "planned_vs_actual()" /\ last.res = "ok") =>
        LET res == last.req
            m == Strip(last.month)
            RECURSIVE Total(_, _, _)
            Total(n, o, c) ==
                IF n = 0 THEN 0
                ELSE Total(n - 1, o, c) +
                     (IF /\ db.txns[n].deleted_at = NullNum
                         /\ db.txns[n].owner_id = o
                         /\ db.txns[n].category_id = c
                         /\ SubSeq(db.txns[n].txn_date, 1, 7) = m
                      THEN db.txns[n].amount ELSE 0)
        IN  \A i \in DOMAIN res :
                \E o \in DOMAIN db.owners, c \in DOMAIN db.categories :
                    /\ db.owners[o].display_name = res[i].owner
                    /\ db.categories[c].name = res[i].category
                    /\ IF \E r \in db.budgets :
                              r.month = m /\ r.owner_id = o /\ r.category_id = c
                       THEN \E r \in db.budgets :
                              /\ r.month = m /\ r.owner_id = o /\ r.category_id = c
                              /\ res[i].planned = r.planned_amount
                       ELSE res[i].planned = 0
                    /\ res[i].actual = Total(Len(db.txns), o, c)
                    /\ res[i].variance = res[i].planned - res[i].actual

\* a report of 2026-01 with a row that sums two transactions against a budget of 10,
\* while the same pair has a budget of 20 in 2026-02
C14_Witness ==
    /\ last.op = "planned_vs_actual()"
    /\ Strip(last.month) = M1
    /\ \E i \in DOMAIN last.req :
          last.req[i].planned = 10 /\ last.req[i].actual = 3 /\ last.req[i].variance = 7
    /\ Len(db.txns) = 2
    /\ \E r \in db.budgets : r.month = M2 /\ r.planned_amount = 20

\* C15: a soft-deleted transaction is gone from get_transactions, from
\* export_transactions_rows and from the actual sums of planned_vs_actual, while the
\* transactions table keeps all its rows: no step removes a row or changes anything
\* of a row but its deleted_at.
C15_SoftDeleteHidesRow ==
    [][/\ Len(db'.txns) >= Len(db.txns)
       /\ \A i \in DOMAIN db.txns :
             [db'.txns[i] EXCEPT !.deleted_at = NullNum]
                 = [db.txns[i] EXCEPT !.deleted_at = NullNum]
       /\ last'.op = "soft_delete_transaction()" =>
             LET t == last'.req
                 row == db.txns[t]
                 m == SubSeq(row.txn_date, 1, 7)
                 live == row.deleted_at = NullNum
                 before == planned_vs_actual(db, m)
                 after == planned_vs_actual(db', m)
             IN  /\ Len(db'.txns) = Len(db.txns)
                 /\ \A month \in {Null, M1, M2} :
                       LET e0 == export_transactions_rows(db, month)
                           e1 == export_transactions_rows(db', month)
                           g1 == get_transactions(db', month)
                       IN  /\ t \notin g1
                           /\ g1 = get_transactions(db, month) \ {t}
                           /\ Len(e1) = Cardinality(g1)
                           /\ (live /\ month \in {Null, m}) =>
                                 \E k \in DOMAIN e0 :
                                     /\ e0[k].txn_date = row.txn_date
                                     /\ e0[k].amount = row.amount
                                     /\ e1 = SubSeq(e0, 1, k - 1) \o SubSeq(e0, k + 1, Len(e0))
                 /\ Len(after) = Len(before)
                 /\ \A i \in DOMAIN after :
                       LET a == after[i]
                       IN  a.actual = before[i].actual -
                               (IF /\ live
                                   /\ a.owner = db.owners[row.owner_id].display_name
                                   /\ a.category = db.categories[row.category_id].name
                                THEN row.amount ELSE 0)]_vars

\* one of two transactions of the same owner, category and month was soft-deleted
C15_Witness ==
    /\ last.op = "soft_delete_transaction()"
    /\ Len(db.txns) = 2
    /\ db.txns[last.req].deleted_at # NullNum
    /\ \E i \in get_transactions(db, M1) :
          /\ db.txns[i].owner_id = db.txns[last.req].owner_id
          /\ db.txns[i].category_id = db.txns[last.req].category_id
          /\ db.txns[i].txn_date = db.txns[last.req].txn_date
    /\ ActiveCategories(db) = {1, 2}

\* C16: latest_snapshot_by_account(m) returns exactly one row per active account,
\* also for an account with no snapshot of m, whose current balance and payment are
\* null; the current fields are those of the snapshot of month m, the previous fields
\* those of the snapshot of the latest month before m, however far back, or null when
\* the account has no earlier snapshot.
C16_CurrentAndPreviousSnapshot ==
    last.op = "debt_progress" =>
        LET res == last.req
            MonthNum(mm) ==
                12 * (1000 * (mm[1] - 48) + 100 * (mm[2] - 48)
                        + 10 * (mm[3] - 48) + (mm[4] - 48))
                   + 10 * (mm[6] - 48) + (mm[7] - 48)
            of(a) == {r \in db.snapshots : r.account_id = a}
        IN  /\ Len(res) = Cardinality(ActiveAccounts(db))
            /\ \A a \in ActiveAccounts(db) :
                  /\ Cardinality({i \in DOMAIN res : res[i].row.account_id = a}) = 1
                  /\ \A i \in DOMAIN res : res[i].row.account_id = a =>
                        /\ IF \E r \in of(a) : r.month = last.month
                           THEN \E r \in of(a) :
                                   /\ r.month = last.month
                                   /\ res[i].row.curr_balance = <<r.balance>>
                                   /\ res[i].row.curr_payment = <<r.payment>>
                           ELSE /\ res[i].row.curr_balance = NullNum
                                /\ res[i].row.curr_payment = NullNum
                        /\ IF \E r \in of(a) : MonthNum(r.month) < MonthNum(last.month)
                           THEN \E r \in of(a) :
                                   /\ MonthNum(r.month) < MonthNum(last.month)
                                   /\ \A r2 \in of(a) :
                                         MonthNum(r2.month) < MonthNum(last.month)
                                             => MonthNum(r2.month) <= MonthNum(r.month)
                                   /\ res[i].row.prev_balance = <<r.balance>>
                                   /\ res[i].row.prev_payment = <<r.payment>>
                           ELSE /\ res[i].row.prev_balance = NullNum
                                /\ res[i].row.prev_payment = NullNum

\* the rows of 2026-02 where the card has snapshots of 2025-11 and 2026-02 only and
\* the loan has none for the month
C16_Witness ==
    /\ last.op = "debt_progress"
    /\ last.month = M2
    /\ Len(last.req) = 2
    /\ ~ \E r \in db.snapshots : r.account_id = 1 /\ r.month = M1
    /\ \E i \in DOMAIN last.req :
          /\ last.req[i].row.account_id = 1
          /\ last.req[i].row.curr_balance = <<0>>
          /\ last.req[i].row.prev_balance = <<600>>
    /\ \E i \in DOMAIN last.req :
          /\ last.req[i].row.account_id = 2
          /\ last.req[i].row.curr_balance = NullNum
          /\ last.req[i].row.prev_balance = <<100>>

\* C17: the debt metrics use present, valid inputs only.  utilization% is null
\* unless credit_limit > 0 and a current balance exists, and is then
\* 100*current/credit_limit to one decimal; payoff% is null unless start_balance > 0
\* and a current balance exists, and is then 100*(start - current)/start to one
\* decimal; balance_delta is null if the current or the previous balance is missing,
\* else current - previous.  With start 1000, limit 500, current 400, previous 600
\* they are 80.0, 60.0 and -200.  Where the quotient lies halfway between two
\* tenths the value is the one round() gives for the double: with limit and start
\* 400 the currents 1 and 403 give 0.2, 99.8 and 100.8, -0.8; with limit and start
\* 2000 they give 0.1, 100.0 and 20.1, 79.8.
C17_DebtMetrics ==
    last.op = "debt_progress" =>
        \A i \in DOMAIN last.req :
            LET r == last.req[i].row
                has(x) == x # NullNum
                Abs(x) == IF x < 0 THEN -x ELSE x
                \* v tenths of a percent is n/d as a percentage, to the nearest tenth
                Nearest(v, n, d) == 2 * Abs(1000 * n - v * d) <= d
            IN  /\ last.req[i].utilization # <<>>
                      <=> (has(r.credit_limit) /\ r.credit_limit[1] > 0 /\ has(r.curr_balance))
                /\ last.req[i].utilization # <<>>
                      => Nearest(last.req[i].utilization[1], r.curr_balance[1], r.credit_limit[1])
                /\ last.req[i].payoff # <<>>
                      <=> (has(r.start_balance) /\ r.start_balance[1] > 0 /\ has(r.curr_balance))
                /\ last.req[i].payoff # <<>>
                      => Nearest(last.req[i].payoff[1], r.start_balance[1] - r.curr_balance[1],
                                 r.start_balance[1])
                /\ last.req[i].balance_delta =
                      IF has(r.curr_balance) /\ has(r.prev_balance)
                      THEN <<r.curr_balance[1] - r.prev_balance[1]>> ELSE <<>>
                /\ (/\ r.start_balance = <<1000>> /\ r.credit_limit = <<500>>
                    /\ r.curr_balance = <<400>> /\ r.prev_balance = <<600>>)
                      => /\ last.req[i].utilization = <<800>>
                         /\ last.req[i].payoff = <<600>>
                         /\ last.req[i].balance_delta = <<-200>>
                /\ \A e \in {<<400, 1, 2, 998>>, <<400, 403, 1008, -8>>,
                              <<2000, 1, 1, 1000>>, <<2000, 403, 201, 798>>} :
                      (/\ r.credit_limit = <<e[1]>> /\ r.start_balance = <<e[1]>>
                       /\ r.curr_balance = <<e[2]>>)
                         => /\ last.req[i].utilization = <<e[3]>>
                            /\ last.req[i].payoff = <<e[4]>>

\* the tab shows the card with limit 500, start 1000, current 400 and previous 600
\* next to a loan with a limit of 0, a start balance of 0 and no snapshot, and a
\* loan whose 0.25% used and 99.75% paid off lie halfway between two tenths
C17_Witness ==
    /\ last.op = "debt_progress"
    /\ \E i \in DOMAIN last.req :
          /\ last.req[i].row.credit_limit = <<500>>
          /\ last.req[i].row.start_balance = <<1000>>
          /\ last.req[i].row.curr_balance = <<400>>
          /\ last.req[i].row.prev_balance = <<600>>
          /\ last.req[i].utilization = <<800>>
          /\ last.req[i].payoff = <<600>>
          /\ last.req[i].balance_delta = <<-200>>
    /\ \E i \in DOMAIN last.req :
          /\ last.req[i].row.credit_limit = <<0>> /\ last.req[i].row.start_balance = <<0>>
          /\ last.req[i].row.curr_balance = NullNum
          /\ last.req[i].utilization = <<>>
          /\ last.req[i].payoff = <<>>
          /\ last.req[i].balance_delta = <<>>
    /\ \E i \in DOMAIN last.req :
          /\ last.req[i].row.credit_limit = <<400>> /\ last.req[i].row.start_balance = <<400>>
          /\ last.req[i].row.curr_balance = <<1>>
          /\ last.req[i].utilization = <<2>>
          /\ last.req[i].payoff = <<998>>

\* C18: there are always exactly three owners, with the system keys shared, person_1
\* and person_2; no step, init_db run again included, adds or removes an owner or
\* changes an owner's id (its position), system_key or sort_order; rename_owner
\* changes the display_name of its owner and nothing else.
C18_OwnersFixed ==
    [][/\ Len(db'.owners) = 3
       /\ \A i \in 1..3 :
             /\ db'.owners[i].system_key = SeedOwners[i].system_key
             /\ db'.owners[i].sort_order = SeedOwners[i].sort_order
       /\ IF last'.op \in {"rename_owner()", "rename_owner"} /\ last'.res = "written"
                /\ last'.req.owner_id \in 1..3
          THEN db' = [db EXCEPT !.owners[last'.req.owner_id].display_name =
                                    Strip(last'.req.new_name)]
          ELSE db'.owners = db.owners]_vars

\* an owner was renamed with a padded name, then init_db ran again
C18_Witness ==
    /\ last.op = "init_db()"
    /\ db.owners[2].display_name = <<65, 110, 110>>
    /\ db.owners[1].display_name = SeedOwners[1].display_name
    /\ db.owners[3].display_name = <<83, 97, 109>>

\* C19: every stored transaction has an amount greater than 0, whether the Add
\* Expense form (add_transaction) or a CSV import (bulk_add_transactions) inserted it.
C19_AmountsPositive == \A i \in DOMAIN db.txns : db.txns[i].amount > 0

\* rows were imported from a CSV file, and a file with an amount of 0 is in the
\* uploader
C19_Witness ==
    /\ Len(db.txns) >= 2
    /\ uploaded.present
    /\ \E i \in DOMAIN uploaded.rows : uploaded.rows[i].amount[1] <= 0

\* C20: every month stored in bill_payments, account_snapshots, budgets and
\* month_closings is the literal 7-character form YYYY-MM (four digits, a hyphen, two
\* digits), whatever month argument bills_due_view, set_bill_paid, upsert_snapshot,
\* upsert_budget and close_month were called with.
C20_StoredMonthsWellFormed ==
    LET IsMonth(m) ==
            /\ Len(m) = 7
            /\ m[5] = 45
            /\ \A i \in {1, 2, 3, 4, 6, 7} : m[i] \in 48..57
    IN  /\ \A r \in db.bill_payments : IsMonth(r.month)
        /\ \A r \in db.snapshots : IsMonth(r.month)
        /\ \A r \in db.budgets : IsMonth(r.month)
        /\ \A r \in db.closings : IsMonth(r.month)

\* C21: planned_vs_actual(month) fails with a validation error, and does not coerce
\* the argument, for every month argument that is not exactly of the form YYYY-MM:
\* four digits, a hyphen, two digits.
C21_ReportRejectsBadMonth ==
    LET IsMonth(m) ==
            /\ Len(m) = 7
            /\ m[5] = 45
            /\ \A i \in {1, 2, 3, 4, 6, 7} : m[i] \in 48..57
    IN  (last.op = "planned_vs_actual()" /\ ~ IsMonth(last.month)) => last.res = "raised"

\* C22: category names are unique case-insensitively after any sequence of
\* add_category, get_or_create_category_id and rename_category;
\* get_or_create_category_id returns the id of the category whose name matches
\* case-insensitively and creates a row only when none matches, so a second call with
\* the same name creates nothing.
C22_CategoryNamesUnique ==
    [][/\ \A i, j \in DOMAIN db'.categories :
             Lower(db'.categories[i].name) = Lower(db'.categories[j].name) => i = j
       /\ (last'.op = "get_or_create_category_id()" /\ last'.res # "raised") =>
             LET key == Lower(Strip(last'.req.name))
                 id == last'.req.id
             IN  /\ id \in DOMAIN db'.categories
                 /\ Lower(db'.categories[id].name) = key
                 /\ IF \E i \in DOMAIN db.categories : Lower(db.categories[i].name) = key
                    THEN db' = db
                    ELSE /\ Len(db'.categories) = Len(db.categories) + 1
                         /\ id = Len(db'.categories)
                         /\ db'.categories[id].name = Strip(last'.req.name)
                 /\ get_or_create_category_id(db', last'.req.name) = db'
                 /\ category_id_for(db', last'.req.name) = id]_vars

\* get_or_create_category_id found a category under a name of another case, next to a
\* second category
C22_Witness ==
    /\ last.op = "get_or_create_category_id()"
    /\ last.res = "found"
    /\ Len(db.categories) = 2
    /\ db.categories[last.req.id].name # Strip(last.req.name)

\* C23: a validation error has no effect on the store: when rename_owner,
\* add_category, add_bill, add_account, add_transaction, upsert_snapshot, upsert_budget
\* or close_month raises, every table is identical to what it was before the call.
C23_ValidationErrorNoEffect ==
    [][(/\ last'.op \in {"rename_owner()", "add_category()", "add_bill()", "add_account()",
                         "add_transaction()", "upsert_snapshot()", "upsert_budget()",
                         "close_month()"}
        /\ last'.res = "raised") => db' = db]_vars

\* close_month raised on a malformed month while an active bill was waiting for its
\* payment row
C23_Witness ==
    /\ last.op = "close_month()"
    /\ last.res = "raised"
    /\ ActiveBills(db) # {}
    /\ db.bill_payments = {}

\* C24: closing an open month materializes the bill payment rows before the closing
\* row is inserted: on the step that closes a month, every bill that was active before
\* the step has a payment row of that month after it, and no step removes a payment
\* row, so every closed month keeps a row for every bill active when it was closed.
C24_ClosedMonthHasPaymentRows ==
    [][/\ \A c \in db'.closings :
             (\A c0 \in db.closings : c0.month # c.month) =>
                 \A b \in ActiveBills(db) :
                     \E r \in db'.bill_payments : r.bill_id = b /\ r.month = c.month
       /\ \A r \in db.bill_payments :
             \E q \in db'.bill_payments : q.bill_id = r.bill_id /\ q.month = r.month
       /\ \A c0 \in db.closings : \E c \in db'.closings : c.month = c0.month]_vars

\* close_month closed a month with an active bill, whose payment row is there and unpaid
C24_Witness ==
    /\ last.op = "close_month()"
    /\ last.res = "written"
    /\ \E b \in ActiveBills(db), r \in db.bill_payments :
          /\ r.bill_id = b
          /\ r.month = Strip(last.month)
          /\ ~ r.paid
          /\ is_month_closed(db, r.month)

\* C25: once a month is closed, its bill payment rows change only through a confirmed
\* bill-payment write for that month: no other step (a view of Bills Due or of the
\* Dashboard, a bill added, a first save click) inserts or modifies one of its rows.
C25_ClosedMonthRowsFrozen ==
    [][\A c \in db.closings :
          (last'.op = "confirm_bill_payment" /\ last'.month = c.month)
          \/ {r \in db'.bill_payments : r.month = c.month}
                = {r \in db.bill_payments : r.month = c.month}]_vars

\* C26: for every month m, the actual column of planned_vs_actual(m), summed over all
\* its rows, equals the sum of the amounts of all non-deleted transactions dated in m,
\* those of deactivated categories included.
C26_ActualsCoverAllTransactions ==
    (last.op = "planned_vs_actual()" /\ last.res = "ok") =>
        LET res == last.req
            m == Strip(last.month)
            RECURSIVE Reported(_)
            Reported(n) == IF n = 0 THEN 0 ELSE Reported(n - 1) + res[n].actual
            RECURSIVE Spent(_)
            Spent(n) ==
                IF n = 0 THEN 0
                ELSE Spent(n - 1) +
                     (IF /\ db.txns[n].deleted_at = NullNum
                         /\ SubSeq(db.txns[n].txn_date, 1, 7) = m
                      THEN db.txns[n].amount ELSE 0)
        IN  Reported(Len(res)) = Spent(Len(db.txns))

\* C27: set_bill_paid(m, bill, ...) changes the payment state of (bill, m) only: every
\* payment row of another bill or of another month is kept as it was, a row that the
\* call adds for another bill is an unpaid row of m with nothing filled in, so the
\* payment state of every other bill and month is unchanged, and the budgets, snapshots,
\* transactions and month closings are untouched.
C27_SetBillPaidTouchesOneRow ==
    [][last'.op = "set_bill_paid()" =>
          LET b == last'.req.bill_id
              m == last'.req.month
              Other(r) == r.bill_id # b \/ r.month # m
          IN  /\ \A r \in db.bill_payments : Other(r) => r \in db'.bill_payments
              /\ \A r \in db'.bill_payments :
                    (Other(r) /\ r \notin db.bill_payments) =>
                        /\ r.month = m
                        /\ ~ r.paid /\ r.paid_amount = NullNum
                        /\ r.paid_date = Null /\ r.note = Null
                        /\ \A q \in db.bill_payments :
                              q.bill_id # r.bill_id \/ q.month # r.month
              /\ db'.budgets = db.budgets
              /\ db'.snapshots = db.snapshots
              /\ db'.txns = db.txns
              /\ db'.closings = db.closings]_vars

\* a bill was marked unpaid in a month while the other bill stays paid in that month
\* and the bill itself stays paid in the other month
C27_Witness ==
    /\ last.op = "set_bill_paid()"
    /\ ~ last.req.paid
    /\ \E r \in db.bill_payments :
          /\ r.bill_id = last.req.bill_id /\ r.month = last.req.month /\ ~ r.paid
    /\ \E r \in db.bill_payments :
          /\ r.bill_id # last.req.bill_id /\ r.month = last.req.month /\ r.paid
    /\ \E r \in db.bill_payments :
          /\ r.bill_id = last.req.bill_id /\ r.month # last.req.month /\ r.paid

====
